---- MODULE Spec2Model ----
(***************************************************************************)
(* The flow-field particle simulator of lessons/17_capstone/capstone_py5.py *)
(* (the same follow/update/wrap code recurs in lessons 07 and 16).          *)
(*                                                                          *)
(* Numbers.  Python floats are modelled in fixed point:                     *)
(*   - positions and velocities in units of 1/PosRes pixel,                 *)
(*   - speeds and stroke weights in units of 1/Res pixel,                   *)
(*   - lifespans in units of 1/Res tick (age stays a whole tick count),     *)
(*   - noise values in units of 1/NoiseRes, angles in units of 1/TWO_PI     *)
(*     of a full turn (TWO_PI == 16, so one unit is 22.5 degrees),          *)
(*   - z_offset and the noise coordinates in thousandths, t in hundredths,  *)
(*   - cos and sin in thousandths (CosTab).                                 *)
(* A position of the model stands for the float of the code within a        *)
(* bound that grows with every step (PosErr).  Where a test of the code on  *)
(* a position (an edge test of update(), the cell of follow(), the noise    *)
(* cell of lesson 16) falls within that bound of its threshold, the rounded *)
(* arithmetic cannot tell how the floats come out, and the step has both    *)
(* outcomes.                                                                *)
(* py5.random is a seeded pseudo-random generator; it is modelled as a      *)
(* small linear congruential generator whose state rng is arbitrary at      *)
(* start.  py5.noise is a deterministic function of its arguments and the   *)
(* noise seed; it is modelled by a fixed mixing function.                   *)
(*                                                                          *)
(* py5 runs setup(), draw() and key_pressed() on one thread, so a key       *)
(* handler never runs inside draw().  draw() is followed through its        *)
(* program positions (pc); key handlers fire only at pc = "idle".  An        *)
(* exception raised by setup() or draw() ends the run at pc =               *)
(* "setup_raised" or "draw_raised".                                         *)
(*                                                                          *)
(* Spec follows the sketch on one small canvas under every key sequence;    *)
(* SpecGrid follows setup() and the frames after it over many canvas and    *)
(* cell sizes, the sizes of lessons 07 and 17 among them; SpecConfig        *)
(* follows them over cell and pool sizes the source does not write down.    *)
(*                                                                          *)
(* Lesson 16 (export_production_py5.py) is modelled beside it: Spec16 is    *)
(* one run of that sketch, Spec16Pair two runs that are reseeded alike, and *)
(* SpecSketches a run of either sketch.                                     *)
(***************************************************************************)
EXTENDS Integers, Sequences, FiniteSets, TLC

VARIABLES
    pc,             \* position of the sketch: "boot", "idle", "loop", "expire",
                    \* "setup_raised", "draw_raised"; "off" when it is not run
    width, height,  \* py5.width, py5.height (canvas size in pixels)
    scale,          \* module global scale (cell size in pixels)
    pool_size,      \* module global max_particles (the size of the pool)
    table,          \* module global artists: {} until init_artists() fills it
    cols, rows,     \* module globals cols, rows
    field,          \* module global field: field[i][j], an angle
    particles,      \* module global particles: sequence of ArtParticle records
    current_artist, \* module global current_artist
    z_offset,       \* module global z_offset (thousandths)
    t,              \* module global t (hundredths)
    show_field,     \* module global show_field
    show_trails,    \* module global show_trails
    rng,            \* state of py5.random's generator
    noise_seed,     \* seed of py5.noise
    frame_count,    \* py5.frame_count: number of draw() calls started
    artist,         \* draw()'s local `artist` (the id whose profile it names)
    idx,            \* draw()'s loop variable i, 1-based (Python i + 1)
    draws,          \* draw requests emitted so far by the draw() in progress
    run,            \* lesson 16: the module globals of one run of the sketch
    twin,           \* lesson 16: the module globals of a second run
    phase,          \* lesson 16, two runs: "free" (each run on its own, with
                    \* the number of operations each has received) or
                    \* "lock" (both runs receive the same operations)
    sketch06,       \* lesson 06: the module globals of one run of the sketch
    day5            \* day 5 installation: the module globals of one run

vars == << pc, width, height, scale, pool_size, table, cols, rows, field, particles,
           current_artist, z_offset, t, show_field, show_trails, rng,
           noise_seed, frame_count, artist, idx, draws, run, twin, phase,
           sketch06, day5 >>

----------------------------------------------------------------------------
(* Bounds of the model *)

\* fixed-point resolution of floats: units per pixel / per tick
Res == 2
\* positions and velocities are kept in thousandths of a unit, the scale of
\* the cosine table: a step cos(angle) * max_speed is added as it is
Milli == 1000
\* position units per pixel
PosRes == Res * Milli
\* pool size (max_particles = 800 in the source, scaled down)
max_particles == 2
\* lifespan range (py5.random(100, 300) in the source, scaled down), in ticks
lifespan_min == 1
lifespan_max == 3
\* draw() calls followed in one run
MaxFrames == 3
\* canvas of the simulation, in pixels (py5.size(1200, 800) in the source, scaled down)
MaxWidth == 5
MaxHeight == 3
\* cell size of the simulation, in pixels (scale = 15 in the source, scaled down)
CellSize == 2
\* canvas and cell sizes tried by the grid construction alone
MaxCanvas == 12
MaxCell == 5
\* noise seeds tried: 0..MaxNoiseSeed
MaxNoiseSeed == 1

----------------------------------------------------------------------------
(* Numeric helpers *)

\* ceil(a / b) for b > 0
CeilDiv(a, b) == -((-a) \div b)

\* |a|
Abs(a) == IF a >= 0 THEN a ELSE -a

\* Python int(a / b), b # 0: truncation toward zero
TruncDiv(a, b) ==
    IF (a >= 0) = (b > 0) THEN Abs(a) \div Abs(b) ELSE -(Abs(a) \div Abs(b))

\* a clamp that lacks the upper limit
constrain_low_only(v, lo, hi) == IF v < lo THEN lo ELSE v

\* py5.constrain(v, lo, hi)
constrain(v, lo, hi) == IF v < lo THEN lo ELSE IF v > hi THEN hi ELSE v

\* a value given in tenths, in fixed-point units
Tenths(v) == (v * Res) \div 10

\* py5.TWO_PI in angle units (sixteenths of a turn)
TWO_PI == 16
\* resolution of a noise value: py5.noise returns n / NoiseRes, 0 < n < NoiseRes
NoiseRes == 16

\* 1000 * cos(k * 22.5 degrees), k = 0..15
CosTab == << 1000, 924, 707, 383, 0, -383, -707, -924,
             -1000, -924, -707, -383, 0, 383, 707, 924 >>
\* py5.cos(angle), py5.sin(angle) in thousandths
Cos(angle) == CosTab[(angle % TWO_PI) + 1]
Sin(angle) == CosTab[((angle + 12) % TWO_PI) + 1]

\* py5.noise(x, y, z) under noise seed s: x, y, z in thousandths, result
\* n / NoiseRes with n odd: a value strictly between 0 and 1 that no
\* multiplier 1..3 turns into a whole quarter turn
Noise(s, x, y, z) == 2 * ((s + ((3 * x + 5 * y + 7 * z) \div 2)) % (NoiseRes \div 2)) + 1

\* py5.random's generator
RngMod == 16
RngMul == 5
RngInc == 3
NextRng(r) == (RngMul * r + RngInc) % RngMod
RECURSIVE Adv(_, _)
Adv(r, k) == IF k = 0 THEN r ELSE Adv(NextRng(r), k - 1)
\* py5.random(lo, hi) drawn in generator state r: lo + (hi - lo) * r / RngMod
Rand(r, lo, hi) == lo + (((hi - lo) * r) \div RngMod)

----------------------------------------------------------------------------
(* init_artists: the four profiles *)

ArtistIds == { "monet", "vangogh", "seurat", "kandinsky" }

artists ==
    [ a \in ArtistIds |->
        CASE a = "monet" ->
               [ palette |-> << <<142,178,197>>, <<176,166,198>>, <<168,199,168>>,
                                <<216,191,161>>, <<112,145,128>> >>,
                 speed_range |-> << 15, 30 >>,       \* tenths: (1.5, 3)
                 stroke_weight |-> << 10, 30 >>,     \* tenths: (1, 3)
                 opacity |-> 80,
                 flow_scale |-> 3,                   \* thousandths: 0.003
                 flow_multiplier |-> 1 ]
          [] a = "vangogh" ->
               [ palette |-> << <<25,55,95>>, <<60,90,140>>, <<230,200,80>>,
                                <<40,70,50>>, <<180,150,100>> >>,
                 speed_range |-> << 20, 40 >>,
                 stroke_weight |-> << 20, 50 >>,
                 opacity |-> 150,
                 flow_scale |-> 5,
                 flow_multiplier |-> 3 ]
          [] a = "seurat" ->
               [ palette |-> << <<180,200,220>>, <<140,170,120>>, <<200,180,140>>,
                                <<220,190,170>>, <<80,100,140>> >>,
                 speed_range |-> << 5, 15 >>,
                 stroke_weight |-> << 20, 40 >>,
                 opacity |-> 200,
                 flow_scale |-> 2,
                 flow_multiplier |-> 1 ]
          [] a = "kandinsky" ->
               [ palette |-> << <<200,50,50>>, <<50,100,180>>, <<240,200,50>>,
                                <<30,30,30>>, <<220,220,220>> >>,
                 speed_range |-> << 20, 50 >>,
                 stroke_weight |-> << 10, 60 >>,
                 opacity |-> 180,
                 flow_scale |-> 8,
                 flow_multiplier |-> 2 ] ]

----------------------------------------------------------------------------
(* class ArtParticle *)

\* number of py5.random calls in one ArtParticle.reset
DrawsPerReset == 6

\* a reset whose lifespan range starts at 0
ResetAnyLifespan(profile, r, w, h) ==
    [ x |-> Rand(r, 0, w * PosRes), y |-> Rand(Adv(r, 1), 0, h * PosRes),
      prev_x |-> Rand(r, 0, w * PosRes), prev_y |-> Rand(Adv(r, 1), 0, h * PosRes),
      vx |-> 0, vy |-> 0,
      col |-> profile.palette[Rand(Adv(r, 2), 0, Len(profile.palette)) + 1],
      max_speed |-> Rand(Adv(r, 3), Tenths(profile.speed_range[1]),
                                    Tenths(profile.speed_range[2])),
      stroke_weight |-> Rand(Adv(r, 4), Tenths(profile.stroke_weight[1]),
                                        Tenths(profile.stroke_weight[2])),
      lifespan |-> Rand(Adv(r, 5), 0, lifespan_max * Res), age |-> 0 ]

\* ArtParticle.reset(artist_profile) with the generator in state r,
\* on a canvas of w x h pixels
Reset(profile, r, w, h) ==
    LET x  == Rand(r, 0, w * PosRes)
        y  == Rand(Adv(r, 1), 0, h * PosRes)
        ci == Rand(Adv(r, 2), 0, Len(profile.palette)) + 1
        ms == Rand(Adv(r, 3), Tenths(profile.speed_range[1]),
                              Tenths(profile.speed_range[2]))
        sw == Rand(Adv(r, 4), Tenths(profile.stroke_weight[1]),
                              Tenths(profile.stroke_weight[2]))
        ls == Rand(Adv(r, 5), lifespan_min * Res, lifespan_max * Res)
    IN  [ x |-> x, y |-> y, prev_x |-> x, prev_y |-> y, vx |-> 0, vy |-> 0,
          col |-> profile.palette[ci], max_speed |-> ms, stroke_weight |-> sw,
          lifespan |-> ls, age |-> 0 ]

\* a pool that never holds fewer than one particle
NewPoolAtLeastOne(profile, r, n, w, h) ==
    [ k \in 1..(IF n < 1 THEN 1 ELSE n) |->
        Reset(profile, Adv(r, DrawsPerReset * (k - 1)), w, h) ]

\* [ArtParticle(profile) for _ in range(n)] with the generator in state r
NewPool(profile, r, n, w, h) ==
    [ k \in 1..n |-> Reset(profile, Adv(r, DrawsPerReset * (k - 1)), w, h) ]

\* the cell indices ArtParticle.follow computes for a coordinate
CellIndex(coord, sc, n) == constrain(TruncDiv(coord, sc * PosRes), 0, n - 1)

\* The cosine table rounds cos and sin to thousandths, so a step of the model
\* is off the step of the code by less than half a position unit per unit of
\* speed (and the code's own float sums are off the real sums in their last
\* bit).  StepErr bounds the error of one step, rounded up.
StepErr(speed) == (speed + 1) \div 2

\* bound on the distance between a particle's position in the model and its
\* position in the code: reset() leaves it exact, every update() adds a step
PosErr(p) == p.age * StepErr(p.max_speed)

\* the positions the code's particle can have where the model's has << x, y >>;
\* where they differ, the tests of follow() can come out either way
Around(p) ==
    { p.x - PosErr(p), p.x + PosErr(p) } \X { p.y - PosErr(p), p.y + PosErr(p) }

\* the outcomes of update()'s two edge tests when a moved coordinate is within
\* the error of an edge: per axis, whether the code found it off the canvas
EdgeTests == BOOLEAN \X BOOLEAN

\* a follow that steers: the cell's vector is added to the velocity the
\* particle already has
FollowSteer(p, fld, sc, cs, rs, at) ==
    LET angle == fld[CellIndex(at[1], sc, cs)][CellIndex(at[2], sc, rs)]
    IN  [ p EXCEPT !.vx = p.vx + Cos(angle) * p.max_speed,
                   !.vy = p.vy + Sin(angle) * p.max_speed ]

\* ArtParticle.follow(field), the code's particle standing at `at`
Follow(p, fld, sc, cs, rs, at) ==
    LET col_idx == CellIndex(at[1], sc, cs)
        row_idx == CellIndex(at[2], sc, rs)
        angle   == fld[col_idx][row_idx]
    IN  [ p EXCEPT !.vx = Cos(angle) * p.max_speed,
                   !.vy = Sin(angle) * p.max_speed ]

\* the test `coordinate < 0` (edge = 0) or `coordinate > extent` (edge =
\* extent) of update() on the moved coordinate v: decided by v when v is
\* further than slack from the edge, else by the outcome `off` of the code
Below(v, slack, off) == IF v >= -slack /\ v <= slack THEN off ELSE v < 0
Above(v, extent, slack, off) ==
    IF v >= extent - slack /\ v <= extent + slack THEN off ELSE v > extent

\* a wrap-around that lacks the `> extent` branch
WrapNoUpper(v, before, extent, slack, off) ==
    IF Below(v, slack, off) THEN << extent, extent >> ELSE << v, before >>

\* a wrap-around that moves the position and leaves the previous position alone
WrapKeepPrev(v, before, extent, slack, off) ==
    IF Below(v, slack, off) THEN << extent, before >>
    ELSE IF Above(v, extent, slack, off) THEN << 0, before >>
    ELSE << constrain(v, 0, extent), before >>

\* the wrap-around of one axis in ArtParticle.update: << position, previous >>
\* from the moved position v, the position before the move and the canvas
\* extent.  A coordinate the code found on the canvas lies in 0..extent.
Wrap(v, before, extent, slack, off) ==
    IF Below(v, slack, off) THEN << extent, extent >>
    ELSE IF Above(v, extent, slack, off) THEN << 0, 0 >>
    ELSE << constrain(v, 0, extent), before >>

\* ArtParticle.update(), the edge tests near an edge coming out as `off`
Update(p, w, h, off) ==
    LET slack == PosErr(p) + StepErr(p.max_speed)
        wx == Wrap(p.x + p.vx, p.x, w * PosRes, slack, off[1])
        wy == Wrap(p.y + p.vy, p.y, h * PosRes, slack, off[2])
    IN  [ p EXCEPT !.x = wx[1], !.prev_x = wx[2],
                   !.y = wy[1], !.prev_y = wy[2],
                   !.age = p.age + 1 ]

\* alpha computed by ArtParticle.display: (1 - age / lifespan) * opacity
Alpha(p, profile) == ((p.lifespan - p.age * Res) * profile.opacity) \div p.lifespan

\* a display that draws the trail line whether trails are on or off
DisplayLineOnly(p, profile, trails) ==
    [ kind |-> "line", x0 |-> p.prev_x, y0 |-> p.prev_y, x1 |-> p.x, y1 |-> p.y,
      col |-> p.col, alpha |-> Alpha(p, profile), weight |-> p.stroke_weight ]

\* the draw request ArtParticle.display(artist_profile) emits
Display(p, profile, trails) ==
    IF trails
    THEN [ kind |-> "line", x0 |-> p.prev_x, y0 |-> p.prev_y, x1 |-> p.x, y1 |-> p.y,
           col |-> p.col, alpha |-> Alpha(p, profile), weight |-> p.stroke_weight ]
    ELSE [ kind |-> "ellipse", x0 |-> p.x, y0 |-> p.y, x1 |-> p.x, y1 |-> p.y,
           col |-> p.col, alpha |-> Alpha(p, profile), weight |-> p.stroke_weight * 2 ]

\* an expiry test with > in place of >=
is_dead_strict(p) == p.age * Res > p.lifespan

\* ArtParticle.is_dead()
is_dead(p) == p.age * Res >= p.lifespan

----------------------------------------------------------------------------
(* the flow field *)

\* a grid dimension computed as ceil(extent / cell size)
GridDimCeil(extent, sc) == CeilDiv(extent, sc)

\* cols / rows computed by setup for a canvas extent and a cell size
GridDim(extent, sc) == TruncDiv(extent, sc) + 1

\* a field update that leaves the last column as setup() built it
UpdateFieldSkipLast(profile, z, seed, cs, rs) ==
    [ i \in 0..(cs - 1) |->
        [ j \in 0..(rs - 1) |->
            IF i = cs - 1 THEN 0
            ELSE (Noise(seed, i * profile.flow_scale * 10,
                        j * profile.flow_scale * 10, z)
                     * TWO_PI * profile.flow_multiplier) \div NoiseRes ] ]

\* the field update_field(artist) writes at time offset z
UpdateField(profile, z, seed, cs, rs) ==
    [ i \in 0..(cs - 1) |->
        [ j \in 0..(rs - 1) |->
            (Noise(seed, i * profile.flow_scale * 10, j * profile.flow_scale * 10, z)
                * TWO_PI * profile.flow_multiplier) \div NoiseRes ] ]

\* an overlay that draws an arrow for every cell
RECURSIVE FieldArrowsEveryCell(_, _, _, _, _)
FieldArrowsEveryCell(fld, i, j, cs, rs) ==
    IF i >= cs THEN << >>
    ELSE IF j >= rs THEN FieldArrowsEveryCell(fld, i + 1, 0, cs, rs)
    ELSE << [ kind |-> "arrow", i |-> i, j |-> j, angle |-> fld[i][j] ] >>
         \o FieldArrowsEveryCell(fld, i, j + 1, cs, rs)

\* the arrows draw_field() emits, in loop order
RECURSIVE FieldArrows(_, _, _, _, _)
FieldArrows(fld, i, j, cs, rs) ==
    IF i >= cs THEN << >>
    ELSE IF j >= rs THEN FieldArrows(fld, i + 2, 0, cs, rs)
    ELSE << [ kind |-> "arrow", i |-> i, j |-> j, angle |-> fld[i][j] ] >>
         \o FieldArrows(fld, i, j + 2, cs, rs)

\* a field that is computed in the first frame and never refreshed
update_field_once(profile) ==
    IF frame_count = 0
    THEN UpdateField(profile, z_offset, noise_seed, cols, rows)
    ELSE field

\* update_field(artist) in the current state: reads the globals z_offset, cols, rows
update_field(profile) == UpdateField(profile, z_offset, noise_seed, cols, rows)

\* increments of z_offset (0.002, in thousandths) and t (0.01, in hundredths)
ZStep == 2
TStep == 1

\* a time offset that is never advanced
AdvanceZNever(z) == z

\* z_offset += 0.002
AdvanceZ(z) == z + ZStep

\* a replacement that drops the dead particle and adds none
ReplaceDrop(ps, i, q) == SubSeq(ps, 1, i - 1) \o SubSeq(ps, i + 1, Len(ps))

\* particles[i] = q
Replace(ps, i, q) == [ ps EXCEPT ![i] = q ]

----------------------------------------------------------------------------
(* where the code raises *)

\* ArtParticle.follow(field) raises IndexError: the clamped index is outside the
\* field (the field is empty when cols <= 0 or rows <= 0)
FollowRaises(p) ==
    \E at \in Around(p) :
        LET col_idx == CellIndex(at[1], scale, cols)
        IN  IF col_idx \in DOMAIN field
            THEN CellIndex(at[2], scale, rows) \notin DOMAIN field[col_idx]
            ELSE TRUE

\* ArtParticle.display(artist_profile) raises ZeroDivisionError in
\* age / lifespan
DisplayRaises(p) == p.lifespan = 0

\* setup() raises ZeroDivisionError in int(py5.width / scale).  The profiles
\* init_artists() has just built hold every key and a palette of five colours,
\* so no ArtParticle(...) of the pool raises.
SetupFails == scale = 0

\* the step of draw() at the current position raises: follow() or display()
\* of particle i.  update_field, the replacement of a dead particle and
\* draw_info_panel read keys every profile of init_artists() holds.
DrawFails ==
    IF pc = "loop" /\ idx >= 1
    THEN IF FollowRaises(particles[idx])
         THEN TRUE
         ELSE DisplayRaises(particles[idx])
    ELSE FALSE

----------------------------------------------------------------------------
(* lessons/16_export_production/export_production_py5.py                     *)
(* One run of the sketch is a record of its module globals, the states of    *)
(* py5.random and py5.noise, py5.frame_count, the draw requests the last     *)
(* handler emitted and the frame numbers of the files written to frames/;    *)
(* the handlers are functions from record to record.  Times are in           *)
(* thousandths, lives in units of 1/Res tick.                                *)

\* pool size (num_particles = 200 in the source, scaled down)
num_particles == 2
\* length of an exported sequence (sequence_frames = 120 in the source)
sequence_frames == 2
\* frames save_high_res simulates (400 in the source, scaled down)
HiResFrames == 2
\* draw() calls followed in one run
MaxFrames16 == 4
\* operations a run receives on its own before the two runs are locked
MaxFree == 3

\* seed_value = 42
InitialSeed == 42
\* int(py5.random(100000))
SeedRange == 100000
\* t += 0.008, in thousandths
TStep16 == 8
\* upper end of the alpha range in py5.remap(self.life, 0, self.max_life, 0, 180)
MaxAlpha16 == 180

\* py5.random_seed(seed): the generator state a seed gives
random_seed(seed) == seed % RngMod

\* the palette setup() builds
palette16 == << << 15, 32, 65 >>, << 45, 80, 120 >>, << 90, 140, 160 >>,
                << 180, 120, 80 >>, << 220, 180, 140 >> >>

\* number of py5.random calls in Particle(py5.random(width), py5.random(height))
DrawsPerParticle == 5

\* Particle(py5.random(py5.width), py5.random(py5.height)) with the generator
\* in state r
Particle(r) ==
    LET x == Rand(r, 0, MaxWidth * PosRes)
        y == Rand(Adv(r, 1), 0, MaxHeight * PosRes)
        l == Rand(Adv(r, 4), lifespan_min * Res, lifespan_max * Res)
    IN  [ x |-> x, y |-> y, prev_x |-> x, prev_y |-> y,
          color_idx |-> Rand(Adv(r, 2), 0, Len(palette16)),
          speed |-> Rand(Adv(r, 3), 1 * Res, 3 * Res),
          life |-> l, max_life |-> l ]

\* n times particles.append(Particle(...)) with the generator in state r
Particles16(r, n) ==
    [ k \in 1..n |-> Particle(Adv(r, DrawsPerParticle * (k - 1))) ]

\* bound on the distance between a particle's position in the model and its
\* position in the code: the constructor leaves it exact, every update() adds
\* a step (life falls by one per update)
PosErr16(p) == ((p.max_life - p.life) \div Res) * StepErr(p.speed)

\* self.x * noise_scale (noise_scale = 0.003), in thousandths
NoiseCoord(coord) == (3 * coord) \div PosRes

\* the noise coordinates the code's particle can pass to py5.noise where the
\* model's stands at << x, y >>: those of every position on the canvas within
\* the bound
Around16(p) ==
    (NoiseCoord(constrain(p.x - PosErr16(p), 0, MaxWidth * PosRes))
        .. NoiseCoord(constrain(p.x + PosErr16(p), 0, MaxWidth * PosRes)))
    \X (NoiseCoord(constrain(p.y - PosErr16(p), 0, MaxHeight * PosRes))
        .. NoiseCoord(constrain(p.y + PosErr16(p), 0, MaxHeight * PosRes)))

\* Particle.update(time_val) under noise seed s, the code's particle sampling
\* the noise at the coordinates `at` and the edge tests near an edge coming
\* out as `off`
ParticleUpdate(p, time_val, s, at, off) ==
    LET angle == (Noise(s, at[1], at[2], time_val \div 2) * TWO_PI * 3) \div NoiseRes
        slack == PosErr16(p) + StepErr(p.speed)
        wx == Wrap(p.x + Cos(angle) * p.speed, p.x, MaxWidth * PosRes, slack, off[1])
        wy == Wrap(p.y + Sin(angle) * p.speed, p.y, MaxHeight * PosRes, slack, off[2])
    IN  [ p EXCEPT !.x = wx[1], !.prev_x = wx[2],
                   !.y = wy[1], !.prev_y = wy[2],
                   !.life = p.life - Res ]

\* the particles p.update(time_val) can leave from p under noise seed s
Updates16(p, time_val, s) ==
    { ParticleUpdate(p, time_val, s, at, off) : at \in Around16(p), off \in EdgeTests }

\* the operands of the updates of one draw(): particle, time and noise seed
Operands16(g) ==
    { << g.particles[k], g.t, g.noise_seed >> : k \in DOMAIN g.particles }

\* float arithmetic is a function of its operands: the ways the updates of the
\* operands D can come out, each a function from operands to the particle left
RECURSIVE Fpu16(_)
Fpu16(D) ==
    IF D = {}
    THEN { << >> }
    ELSE LET d == CHOOSE e \in D : TRUE
         IN  { (d :> u) @@ f : u \in Updates16(d[1], d[2], d[3]),
                               f \in Fpu16(D \ { d }) }

\* the pool `for p in particles: p.update(t)` leaves in the run g, the
\* arithmetic coming out as f
Moved16(g, f) ==
    [ k \in DOMAIN g.particles |-> f[<< g.particles[k], g.t, g.noise_seed >>] ]

\* the pools the particle loop of draw() can leave in the run g
Moves16(g) == { Moved16(g, f) : f \in Fpu16(Operands16(g)) }

\* Particle.is_dead()
ParticleIsDead(p) == p.life <= 0

\* the line Particle.draw() emits
ParticleDraw(p) ==
    [ kind |-> "line", x0 |-> p.prev_x, y0 |-> p.prev_y, x1 |-> p.x, y1 |-> p.y,
      col |-> palette16[p.color_idx + 1],
      alpha |-> (MaxAlpha16 * p.life) \div p.max_life,
      weight |-> Tenths(15) ]

\* one vertex of a wave of draw_noise_waves(): y at pixel x for a layer
WaveY(layer, x, time, s) ==
    LET n1 == (Noise(s, 8 * x + 500 * layer, time + 500 * layer, 0) * 100) \div NoiseRes
        n2 == (Noise(s, 15 * x + 500 * layer, ((3 * time) \div 2) + 500 * layer, 0) * 50)
                  \div NoiseRes
        n3 == (Noise(s, 3 * x + 500 * layer, (time \div 2) + 500 * layer, 0) * 150)
                  \div NoiseRes
    IN  ((MaxHeight * 4) \div 10) + n1 + n2 + n3 + 60 * layer

\* the three curves draw_noise_waves() emits
Waves(time, s) ==
    [ l \in 1..3 |->
        [ kind |-> "curve", col |-> palette16[l + 1],
          points |-> [ k \in 1..CeilDiv(MaxWidth + 10, 8) |->
                         << 8 * (k - 1), WaveY(l - 1, 8 * (k - 1), time, s) >> ] ] ]

\* py5.background(8, 12, 20)
Background16 == << [ kind |-> "background", col |-> << 8, 12, 20 >> ] >>

\* the module globals before setup(), with the generator in state r
Globals16(r) ==
    [ pc |-> "boot", t |-> 0, seed_value |-> InitialSeed, particles |-> << >>,
      exporting_sequence |-> FALSE, frame_count_export |-> 0,
      rng |-> r, noise_seed |-> 0, frame_count |-> 0, draws |-> << >>,
      saved |-> << >> ]

\* setup()
setup16(g) ==
    [ g EXCEPT !.pc = "idle",
               !.draws = Background16,
               !.noise_seed = g.seed_value,
               !.particles = g.particles \o Particles16(random_seed(g.seed_value),
                                                       num_particles),
               !.rng = Adv(random_seed(g.seed_value),
                           DrawsPerParticle * num_particles) ]

\* a replacement that puts each fresh particle where the dead one was
RefillInPlace(moved, r) ==
    [ k \in 1..Len(moved) |->
        IF ParticleIsDead(moved[k])
        THEN Particle(Adv(r, DrawsPerParticle
                 * Len(SelectSeq(SubSeq(moved, 1, k - 1), ParticleIsDead))))
        ELSE moved[k] ]

\* draw(), "Replace dead particles": drop the dead, then append fresh ones
\* until the pool holds num_particles
Refill(moved, r) ==
    LET alive == SelectSeq(moved, LAMBDA p : ~ParticleIsDead(p))
        missing == IF Len(alive) < num_particles
                   THEN num_particles - Len(alive) ELSE 0
    IN  alive \o Particles16(r, missing)

\* the number of particles draw() appends
Missing(moved) ==
    LET alive == SelectSeq(moved, LAMBDA p : ~ParticleIsDead(p))
    IN  IF Len(alive) < num_particles THEN num_particles - Len(alive) ELSE 0

\* a draw() that stops the export one frame late
draw16_late_stop(g, moved) ==
    LET exported == g.frame_count_export + 1
    IN  [ g EXCEPT
            !.frame_count = @ + 1,
            !.draws = Waves(g.t, g.noise_seed)
                          \o [ k \in 1..Len(moved) |-> ParticleDraw(moved[k]) ],
            !.particles = Refill(moved, g.rng),
            !.rng = Adv(g.rng, DrawsPerParticle * Missing(moved)),
            !.saved = IF g.exporting_sequence
                      THEN Append(@, g.frame_count + 1) ELSE @,
            !.frame_count_export = IF g.exporting_sequence THEN exported ELSE @,
            !.exporting_sequence = IF g.exporting_sequence /\ exported > sequence_frames
                                   THEN FALSE ELSE @,
            !.t = @ + TStep16 ]

\* draw(), its particle updates leaving the pool `moved`; py5.frame_count is
\* incremented before the body runs
draw16(g, moved) ==
    LET exported == g.frame_count_export + 1
    IN  [ g EXCEPT
            !.frame_count = @ + 1,
            !.draws = Waves(g.t, g.noise_seed)
                          \o [ k \in 1..Len(moved) |-> ParticleDraw(moved[k]) ],
            !.particles = Refill(moved, g.rng),
            !.rng = Adv(g.rng, DrawsPerParticle * Missing(moved)),
            !.saved = IF g.exporting_sequence
                      THEN Append(@, g.frame_count + 1) ELSE @,
            !.frame_count_export = IF g.exporting_sequence THEN exported ELSE @,
            !.exporting_sequence = IF g.exporting_sequence /\ exported >= sequence_frames
                                   THEN FALSE ELSE @,
            !.t = @ + TStep16 ]

\* a start of the export that leaves t as it is
start_sequence_export_keep_time(g) ==
    [ g EXCEPT !.exporting_sequence = TRUE,
               !.frame_count_export = 0,
               !.draws = Background16,
               !.noise_seed = g.seed_value,
               !.particles = Particles16(random_seed(g.seed_value), num_particles),
               !.rng = Adv(random_seed(g.seed_value),
                           DrawsPerParticle * num_particles) ]

\* a start of the export that leaves py5.random as it is
start_sequence_export_unseeded(g) ==
    [ g EXCEPT !.exporting_sequence = TRUE,
               !.frame_count_export = 0,
               !.t = 0,
               !.draws = Background16,
               !.noise_seed = g.seed_value,
               !.particles = Particles16(g.rng, num_particles),
               !.rng = Adv(g.rng, DrawsPerParticle * num_particles) ]

\* start_sequence_export()
start_sequence_export(g) ==
    [ g EXCEPT !.exporting_sequence = TRUE,
               !.frame_count_export = 0,
               !.t = 0,
               !.draws = Background16,
               !.noise_seed = g.seed_value,
               !.particles = Particles16(random_seed(g.seed_value), num_particles),
               !.rng = Adv(random_seed(g.seed_value),
                           DrawsPerParticle * num_particles) ]

\* key_pressed(), key 'v'
key_v(g) ==
    IF g.exporting_sequence
    THEN [ g EXCEPT !.draws = << >> ]
    ELSE start_sequence_export(g)

\* key_pressed(), key 'r'
key_r(g) ==
    LET seed == Rand(g.rng, 0, SeedRange)
    IN  [ g EXCEPT !.seed_value = seed,
                   !.noise_seed = seed,
                   !.t = 0,
                   !.draws = Background16,
                   !.particles = Particles16(random_seed(seed), num_particles),
                   !.rng = Adv(random_seed(seed), DrawsPerParticle * num_particles) ]

\* number of hi_res_particles: int(num_particles * 1.5)
HiResCount == (num_particles * 3) \div 2

\* save_high_res(), the py5.random calls of its simulation: the generator state
\* after frames f..HiResFrames-1, the loop being at particle k of frame f
\* with the lives `lives` and the generator in state r
RECURSIVE HiResRng(_, _, _, _)
HiResRng(f, k, lives, r) ==
    IF f >= HiResFrames THEN r
    ELSE IF k > Len(lives) THEN HiResRng(f + 1, 1, lives, r)
    ELSE IF lives[k] - Res <= 0
         THEN HiResRng(f, k + 1,
                       [ lives EXCEPT ![k] = Rand(Adv(r, 2), lifespan_min * Res,
                                                             lifespan_max * Res) ],
                       Adv(r, 3))
         ELSE HiResRng(f, k + 1, [ lives EXCEPT ![k] = @ - Res ], r)

\* save_high_res(): key 'h'.  It reseeds py5.random and py5.noise and draws
\* into an off-screen buffer: nothing is drawn on the canvas, and of the
\* sketch's state only the generator changes
save_high_res(g) ==
    LET r0 == random_seed(g.seed_value)
        lives == [ k \in 1..HiResCount |->
                     Rand(Adv(r0, DrawsPerParticle * (k - 1) + 4),
                          lifespan_min * Res, lifespan_max * Res) ]
    IN  [ g EXCEPT !.noise_seed = g.seed_value,
                   !.draws = << >>,
                   !.rng = HiResRng(0, 1, lives,
                                    Adv(r0, DrawsPerParticle * HiResCount)) ]

\* the handler an operation names
Apply(op, g, moved) ==
    CASE op = "draw" -> draw16(g, moved)
      [] op = "v"    -> key_v(g)
      [] op = "r"    -> key_r(g)
      [] op = "h"    -> save_high_res(g)

\* the operations the host sends after setup()
Ops16 == { "draw", "v", "r", "h" }

\* what a run shows of itself: everything but py5.frame_count and the frame
\* numbers in the names of the files it wrote
Shown(g) == [ f \in (DOMAIN g) \ { "frame_count", "saved" } |-> g[f] ]

----------------------------------------------------------------------------
(* lessons/06_particle_systems/particle_systems_py5.py                       *)
(* One run of the sketch is a record of its module globals, the state of     *)
(* py5.random, py5.frame_count, the position of draw() (pc, and the loop     *)
(* variable idx, 1-based) and the draw requests of the draw() in progress.   *)
(* Sizes, lifespans, decays and the numbers py5.random returns are in units  *)
(* of 1/Res06; positions, velocities and gravity in units of 1/PosRes06      *)
(* pixel, so that cos(angle) * speed is kept as the product it is; a         *)
(* firefly's phase is in hundredths of a radian.  The cosine of the table    *)
(* is rounded to a thousandth, so the position of an Explosion particle      *)
(* stands for the float of the code within a bound that grows with every     *)
(* update (PosErr06), and the sums of the code's floats carry the error of   *)
(* their last bit: where a test of is_dead() falls within the bound of its   *)
(* threshold it has both outcomes.                                           *)

\* units per pixel: the smallest step of the source is gravity = 0.05
Res06 == 20
\* units per pixel of positions and velocities
PosRes06 == Res06 * Milli
\* canvas (py5.size(800, 600) in the source, scaled down)
Width06 == 30
Height06 == 20
\* self.lifespan = 255 in the source, scaled down
lifespan06 == 15
\* particles of one explosion (100 in the source, scaled down)
Burst06 == 2
\* the most fireflies draw() lets the list hold (50 in the source, scaled down)
FireflyCap == 2
\* draw() calls followed in one run
MaxFrames06 == 9
\* a click adds an explosion only while the list stays within this length
MaxList06 == 4

\* particles a fountain emits per frame, drops of rain per frame
FountainRate == 3
RainRate == 5
\* the fountain emits at height - 50, the rain at y = -10
FountainRise == 50
RainStart == 10
\* is_dead: y > height + 20, and in Rain mode y > height - 5
BottomMargin == 20
RainFloor == 5
\* self.lifespan = 255 and self.decay = py5.random(2, 5)
DecayMin == 2
DecayMax == 5
\* py5.TWO_PI in hundredths of a radian
TwoPi100 == 628
\* self.phase += 0.1, in hundredths of a radian
PhaseStep == 10

\* the palette setup() builds
palette06 == << << 66, 133, 244 >>, << 219, 68, 55 >>, << 244, 180, 0 >>,
                << 15, 157, 88 >>, << 156, 39, 176 >> >>

\* a value given in hundredths, in units of 1/Res06
Hundredths06(v) == (v * Res06) \div 100

\* number of py5.random calls in Particle.__init__ for a mode
DrawsPerParticle06(m) == IF m = 2 THEN 4 ELSE 5

\* Particle(x, y, mode) with the generator in state r
Particle06(x, y, m, r) ==
    LET base == [ x |-> x, y |-> y, mode |-> m, lifespan |-> lifespan06 * Res06 ]
    IN  CASE m = 0 ->
               base @@ [ vx |-> Rand(r, -2 * Res06, 2 * Res06) * Milli,
                         vy |-> Rand(Adv(r, 1), -8 * Res06, -4 * Res06) * Milli,
                         gravity |-> Hundredths06(15) * Milli,
                         col |-> palette06[Rand(Adv(r, 2), 0, Len(palette06)) + 1],
                         size |-> Rand(Adv(r, 3), 8 * Res06, 15 * Res06),
                         decay |-> Rand(Adv(r, 4), DecayMin * Res06, DecayMax * Res06) ]
          [] m = 1 ->
               LET angle == Rand(r, 0, TWO_PI)
                   speed == Rand(Adv(r, 1), 2 * Res06, 8 * Res06)
               IN  base @@ [ vx |-> Cos(angle) * speed,
                             vy |-> Sin(angle) * speed,
                             gravity |-> Hundredths06(5) * Milli,
                             col |-> palette06[Rand(Adv(r, 2), 0, Len(palette06)) + 1],
                             size |-> Rand(Adv(r, 3), 5 * Res06, 12 * Res06),
                             decay |-> Rand(Adv(r, 4), DecayMin * Res06, DecayMax * Res06) ]
          [] m = 2 ->
               base @@ [ vx |-> Rand(r, -Hundredths06(50), Hundredths06(50)) * Milli,
                         vy |-> Rand(Adv(r, 1), 5 * Res06, 12 * Res06) * Milli,
                         gravity |-> Hundredths06(10) * Milli,
                         col |-> << 100, 150, 200, 150 >>,
                         size |-> Rand(Adv(r, 2), 2 * Res06, 4 * Res06),
                         decay |-> Rand(Adv(r, 3), DecayMin * Res06, DecayMax * Res06) ]
          [] m = 3 ->
               base @@ [ vx |-> Rand(r, -Res06, Res06) * Milli,
                         vy |-> Rand(Adv(r, 1), -Res06, Res06) * Milli,
                         gravity |-> 0,
                         col |-> << 255, 220, 100 >>,
                         size |-> Rand(Adv(r, 2), 4 * Res06, 8 * Res06),
                         phase |-> Rand(Adv(r, 3), 0, TwoPi100),
                         decay |-> Rand(Adv(r, 4), DecayMin * Res06, DecayMax * Res06) ]

\* number of py5.random calls in Particle.update for a mode
DrawsPerUpdate06(m) == IF m = 3 THEN 2 ELSE 0

\* an update that takes only half the decay off the lifespan
Update06SlowFade(p, r) ==
    LET vy1 == p.vy + p.gravity
        q == [ p EXCEPT !.vy = vy1, !.x = p.x + p.vx, !.y = p.y + vy1,
                        !.lifespan = p.lifespan - (p.decay \div 2) ]
    IN  IF p.mode = 3
        THEN [ q EXCEPT
                 !.vx = constrain(p.vx + Rand(r, -Hundredths06(20), Hundredths06(20))
                                             * Milli,
                                  -2 * PosRes06, 2 * PosRes06),
                 !.vy = constrain(vy1 + Rand(Adv(r, 1), -Hundredths06(20),
                                             Hundredths06(20)) * Milli,
                                  -2 * PosRes06, 2 * PosRes06),
                 !.phase = p.phase + PhaseStep ]
        ELSE q

\* Particle.update() with the generator in state r
Update06(p, r) ==
    LET vy1 == p.vy + p.gravity
        q == [ p EXCEPT !.vy = vy1, !.x = p.x + p.vx, !.y = p.y + vy1,
                        !.lifespan = p.lifespan - p.decay ]
    IN  IF p.mode = 3
        THEN [ q EXCEPT
                 !.vx = constrain(p.vx + Rand(r, -Hundredths06(20), Hundredths06(20))
                                             * Milli,
                                  -2 * PosRes06, 2 * PosRes06),
                 !.vy = constrain(vy1 + Rand(Adv(r, 1), -Hundredths06(20),
                                             Hundredths06(20)) * Milli,
                                  -2 * PosRes06, 2 * PosRes06),
                 !.phase = p.phase + PhaseStep ]
        ELSE q

\* a / b rounded to the nearest whole number, a >= 0 and b > 0
Round(a, b) == (2 * a + b) \div (2 * b)

\* py5.TWO_PI, py5.PI, py5.HALF_PI and py5.QUARTER_PI in units of 1/10000
\* radian
TwoPi10k == 62832
Pi10k == 31416
HalfPi10k == 15708
QuarterPi10k == 7854

\* sin x for 0 <= x <= pi / 4, x in 1/10000 radian, the result in
\* thousandths: x (1 - x^2/6 (1 - x^2/20 (1 - x^2/42 (1 - x^2/72))))
SinSeries(x) ==
    LET y == Round(x * x, 10000)
        a == 100000 - Round(y * 10, 72)
        b == 100000 - Round(y * a, 10000 * 42)
        c == 100000 - Round(y * b, 10000 * 20)
        d == 100000 - Round(y * c, 10000 * 6)
    IN  Round(x * d, 1000000)

\* cos x for 0 <= x <= pi / 4, x in 1/10000 radian, the result in
\* thousandths: 1 - x^2/2 (1 - x^2/12 (1 - x^2/30 (1 - x^2/56)))
CosSeries(x) ==
    LET y == Round(x * x, 10000)
        a == 100000 - Round(y * 10, 56)
        b == 100000 - Round(y * a, 10000 * 30)
        c == 100000 - Round(y * b, 10000 * 12)
        d == 100000 - Round(y * c, 10000 * 2)
    IN  Round(d, 100)

\* py5.sin of a phase >= 0 given in hundredths of a radian, in thousandths,
\* to the nearest thousandth
Sin06(ph) ==
    LET x0 == (ph * 100) % TwoPi10k
        x1 == IF x0 > Pi10k THEN x0 - Pi10k ELSE x0
        x2 == IF x1 > HalfPi10k THEN Pi10k - x1 ELSE x1
        v  == IF x2 <= QuarterPi10k THEN SinSeries(x2) ELSE CosSeries(HalfPi10k - x2)
    IN  IF x0 > Pi10k THEN -v ELSE v

\* py5.red(col), py5.green(col), py5.blue(col)
Rgb(col) == SubSeq(col, 1, 3)

\* the ellipse Particle.display() emits: fill(red, green, blue, alpha) and
\* ellipse(x, y, size, size)
Display06(p) ==
    IF p.mode = 3
    THEN LET glow == (Sin06(p.phase) + 1000) \div 2
         IN  [ kind |-> "ellipse", x |-> p.x, y |-> p.y, col |-> Rgb(p.col),
               alpha |-> (p.lifespan * glow) \div 1000,
               size |-> (p.size * (1000 + glow)) \div 1000 ]
    ELSE [ kind |-> "ellipse", x |-> p.x, y |-> p.y, col |-> Rgb(p.col),
           alpha |-> p.lifespan, size |-> p.size ]

\* the updates a particle has received: lifespan starts at 255 and loses
\* decay with every update
Updates06(p) == (lifespan06 * Res06 - p.lifespan) \div p.decay

\* bound on the rounding of cos(angle) * speed: half a thousandth of the
\* largest speed (8)
StepErr06 == StepErr(8 * Res06)

\* bound on the distance between a particle's position in the model and in
\* the code: an Explosion particle moves by its rounded velocity once per
\* update, the velocities of the other modes are exact
PosErr06(p) == IF p.mode = 1 THEN Updates06(p) * StepErr06 ELSE 0

\* a multiple of a quarter is a binary fraction: the code's floats add and
\* subtract it without rounding
Exact06(v) == v % (Res06 \div 4) = 0

\* Particle.is_dead(), a test within rounding of its threshold coming out
\* as `off`
IsDead06(p, off) ==
    \/ IF p.lifespan = 0 /\ ~Exact06(p.decay) THEN off ELSE p.lifespan <= 0
    \/ Above(p.y, (Height06 + BottomMargin) * PosRes06, PosErr06(p), off)
    \/ p.mode = 2 /\ Above(p.y, (Height06 - RainFloor) * PosRes06, PosErr06(p), off)

\* a removal that takes the particle at the front of the list
PopFront(ps, i) == SubSeq(ps, 2, Len(ps))

\* particles.pop(i), i 1-based
Pop(ps, i) == SubSeq(ps, 1, i - 1) \o SubSeq(ps, i + 1, Len(ps))

\* py5.random(1) < 0.1 with the generator in state r
FireflyChance(r) == 10 * r < RngMod

\* an emission that tests the length once and then adds two fireflies
EmitFirefliesPair(ps, r) ==
    IF Len(ps) < FireflyCap
    THEN IF FireflyChance(r)
         THEN [ particles |->
                    ps \o << Particle06(Rand(Adv(r, 1), 0, Width06 * Res06) * Milli,
                                        Rand(Adv(r, 2), 0, Height06 * Res06) * Milli,
                                        3, Adv(r, 3)),
                             Particle06(Rand(Adv(r, 8), 0, Width06 * Res06) * Milli,
                                        Rand(Adv(r, 9), 0, Height06 * Res06) * Milli,
                                        3, Adv(r, 10)) >>,
                rng |-> Adv(r, 15) ]
         ELSE [ particles |-> ps, rng |-> Adv(r, 1) ]
    ELSE [ particles |-> ps, rng |-> r ]

\* draw(), mode 3: if len(particles) < 50 and py5.random(1) < 0.1: append
EmitFireflies(ps, r) ==
    IF Len(ps) < FireflyCap
    THEN IF FireflyChance(r)
         THEN [ particles |->
                    Append(ps, Particle06(Rand(Adv(r, 1), 0, Width06 * Res06) * Milli,
                                          Rand(Adv(r, 2), 0, Height06 * Res06) * Milli,
                                          3, Adv(r, 3))),
                rng |-> Adv(r, 3 + DrawsPerParticle06(3)) ]
         ELSE [ particles |-> ps, rng |-> Adv(r, 1) ]
    ELSE [ particles |-> ps, rng |-> r ]

\* draw(), "Continuous emission for some modes", for the module globals g
Emit06(g) ==
    CASE g.mode = 0 ->
           [ particles |-> g.particles \o
                 [ k \in 1..FountainRate |->
                     Particle06(g.emitter_x * PosRes06,
                                (Height06 - FountainRise) * PosRes06,
                                0, Adv(g.rng, DrawsPerParticle06(0) * (k - 1))) ],
             rng |-> Adv(g.rng, DrawsPerParticle06(0) * FountainRate) ]
      [] g.mode = 2 ->
           [ particles |-> g.particles \o
                 [ k \in 1..RainRate |->
                     LET r == Adv(g.rng, (1 + DrawsPerParticle06(2)) * (k - 1))
                     IN  Particle06(Rand(r, 0, Width06 * Res06) * Milli,
                                    -RainStart * PosRes06, 2, Adv(r, 1)) ],
             rng |-> Adv(g.rng, (1 + DrawsPerParticle06(2)) * RainRate) ]
      [] g.mode = 3 -> EmitFireflies(g.particles, g.rng)
      [] OTHER -> [ particles |-> g.particles, rng |-> g.rng ]

\* the module globals before setup(), with the generator in state r
Globals06(r) ==
    [ pc |-> "boot", mode |-> 0, particles |-> << >>,
      emitter_x |-> Width06 \div 2, emitter_y |-> Height06 \div 2,
      rng |-> r, frame_count |-> 0, idx |-> 0, draws |-> << >> ]

\* setup()
setup06(g) == [ g EXCEPT !.pc = "idle" ]

\* draw(), lines 132-156: background, emission, enter the loop
draw_begin06(g) ==
    LET e == Emit06(g)
    IN  [ g EXCEPT !.pc = "loop",
                   !.frame_count = @ + 1,
                   !.particles = e.particles,
                   !.rng = e.rng,
                   !.idx = Len(e.particles),
                   !.draws = << >> ]

\* draw(), lines 157-159: update and display particle i
draw_particle06(g) ==
    LET p == Update06(g.particles[g.idx], g.rng)
    IN  [ g EXCEPT !.pc = "expire",
                   !.particles[g.idx] = p,
                   !.rng = Adv(g.rng, DrawsPerUpdate06(p.mode)),
                   !.draws = Append(@, Display06(p)) ]

\* draw(), lines 160-161: pop particle i if it is dead; next i
draw_expire06(g, off) ==
    [ g EXCEPT !.pc = "loop",
               !.particles = IF IsDead06(g.particles[g.idx], off)
                             THEN Pop(@, g.idx) ELSE @,
               !.idx = @ - 1 ]

\* draw(), lines 163-164: the loop is over, draw_ui()
draw_end06(g) == [ g EXCEPT !.pc = "idle", !.draws = << >> ]

\* mouse_pressed() at mouse position (mx, my)
mouse_pressed06(g, mx, my) ==
    IF g.mode = 1
    THEN [ g EXCEPT
             !.particles = @ \o
                 [ k \in 1..Burst06 |->
                     Particle06(mx * PosRes06, my * PosRes06, 1,
                                Adv(g.rng, DrawsPerParticle06(1) * (k - 1))) ],
             !.rng = Adv(@, DrawsPerParticle06(1) * Burst06) ]
    ELSE [ g EXCEPT !.emitter_x = mx, !.emitter_y = my ]

\* a mode key that leaves the list as it is
key_mode06_keep(g, m) == [ g EXCEPT !.mode = m ]

\* key_pressed(), keys '1'..'4': mode m = 0..3
key_mode06(g, m) == [ g EXCEPT !.mode = m, !.particles = << >> ]

\* key_pressed(), key 'c'
key_c06(g) == [ g EXCEPT !.particles = << >> ]

\* the mouse positions tried
MousePositions06 == { << 0, 0 >>, << Width06 - 1, Height06 - 1 >> }

\* the lesson 06 sketch is not run
Off06 == [ Globals06(0) EXCEPT !.pc = "off" ]

----------------------------------------------------------------------------
(* Advanced workshop, day 5 (installation_art_py5.py): the particle system   *)
(* of the installation.  One run of the sketch is a record of its module     *)
(* globals, the state of py5.random, py5.frame_count, the position of        *)
(* draw() (pc, and the loop variable idx, 1-based) and the draw requests of  *)
(* the draw() in progress.  Sizes and the numbers py5.random returns are in  *)
(* units of 1/Res05 pixel; positions, velocities and gravity in units of     *)
(* 1/PosRes05 pixel; life is a whole number, as in the source.  What the     *)
(* camera delivers to a frame is input: the faces found, the motion level    *)
(* (in hundredths), whether there is an optical flow and how many of its     *)
(* cells move.  The drawing function of the mode turns them into calls of    *)
(* spawn_particle() and of py5.random.                                       *)

\* fixed-point unit of the day 5 sketch
Res05 == 20
\* unit of positions and velocities
PosRes05 == Res05 * Milli
\* py5.size(1280, 720), scaled down
Width05 == 16
Height05 == 9
\* the camera picture the face rectangles are measured in
CamWidth == 640
CamHeight == 480
\* the cap of update_particles() (500 in the source, scaled down)
ParticleCap == 3
\* the cap of key_pressed() on the attractors (5 in the source, scaled down)
AttractorCap == 1
\* the life of a new particle (255 in the source, scaled down)
life05 == 3
\* most particles draw_sound_sculpture() spawns in one frame
MaxSpawn05 == 3
\* most faces the camera finds, most moving cells of the optical flow
MaxFaces05 == 2
MaxStrokes05 == 1
\* frames of a run
MaxFrames05 == 3
\* p['life'] -= 2
LifeStep == 2
\* p['vx'] *= 0.99, in hundredths
Drag == 99

\* setup(): palettes
palettes05 ==
    [ warm    |-> << << 255, 107, 107 >>, << 255, 159, 67 >>, << 254, 202, 87 >>,
                    << 255, 234, 167 >> >>,
      cool    |-> << << 72, 219, 251 >>, << 29, 209, 161 >>, << 0, 148, 199 >>,
                    << 16, 172, 132 >> >>,
      organic |-> << << 46, 64, 83 >>, << 88, 140, 126 >>, << 180, 215, 195 >>,
                    << 240, 240, 210 >> >>,
      digital |-> << << 255, 0, 128 >>, << 0, 255, 255 >>, << 128, 0, 255 >>,
                    << 255, 255, 0 >> >> ]

\* spawn_particle(x, y, palette, gravity) with the generator in state r
spawn_particle(ps, x, y, palette, gravity, r) ==
    Append(ps, [ x |-> x, y |-> y,
                 vx |-> Rand(r, -2 * Res05, 2 * Res05) * Milli,
                 vy |-> Rand(Adv(r, 1), -2 * Res05, 2 * Res05) * Milli,
                 gravity |-> gravity,
                 life |-> life05,
                 size |-> Rand(Adv(r, 2), 3 * Res05, 10 * Res05),
                 col |-> palette[Rand(Adv(r, 3), 0, Len(palette)) + 1] ])

\* number of py5.random calls in spawn_particle
DrawsPerSpawn == 4

\* what a drawing function leaves: the list and the state of the generator
Spawned(ps, r) == [ particles |-> ps, rng |-> r ]

\* py5.random(1) < tenths / 10
Chance(r, tenths) == 10 * r < tenths * RngMod

\* cx = (fx + fw/2) * scale_x, cy = (fy + fh/2) * scale_y of a face
\* (fx, fy, fw, fh), with scale_x = py5.width / 640, scale_y = py5.height / 480
FaceCx(face) ==
    (((2 * face[1] + face[3]) * Width05 * Res05) \div (2 * CamWidth)) * Milli
FaceCy(face) ==
    (((2 * face[2] + face[4]) * Height05 * Res05) \div (2 * CamHeight)) * Milli

\* n times: spawn_particle(py5.random(py5.width), py5.random(py5.height),
\* palette, gravity)
RECURSIVE SpawnAnywhere(_, _, _, _, _)
SpawnAnywhere(ps, n, palette, gravity, r) ==
    IF n = 0
    THEN Spawned(ps, r)
    ELSE SpawnAnywhere(
             spawn_particle(ps, Rand(r, 0, Width05 * Res05) * Milli,
                            Rand(Adv(r, 1), 0, Height05 * Res05) * Milli,
                            palette, gravity, Adv(r, 2)),
             n - 1, palette, gravity, Adv(r, 2 + DrawsPerSpawn))

\* draw_presence_field(), "Ambient particles responding to presence", with
\* num_faces faces and the motion level in hundredths: presence =
\* constrain(num_faces * 0.3 + motion_level * 0.1, 0, 1) in thousandths and
\* int(presence * 5) particles.  The float 3 * 0.3 is 0.8999999999999999, one
\* bit short of 0.9 (1 * 0.3 and 2 * 0.3 are the floats 0.3 and 0.6), so with
\* three faces a presence that is not clamped stays short of its decimal
\* value: 3 faces and motion level 1.00 give 0.9999999999999999 and 4
\* particles, not 5.
draw_presence_field(ps, num_faces, motion_level, r) ==
    LET sum == 300 * num_faces + motion_level
        presence == constrain(sum, 0, 1000)
        short == IF num_faces = 3 /\ sum <= 1000 THEN 1 ELSE 0
    IN  IF presence > 200
        THEN SpawnAnywhere(ps, (presence * 5 - short) \div 1000,
                           palettes05.cool, 0, r)
        ELSE Spawned(ps, r)

\* draw_motion_painting(): three py5.random calls for the colour of every
\* moving cell, then "Add drips based on motion intensity"
draw_motion_painting(ps, flow, strokes, motion_level, r) ==
    IF ~flow
    THEN Spawned(ps, r)
    ELSE IF motion_level > 30
         THEN SpawnAnywhere(ps, (motion_level * 10) \div 100, palettes05.warm,
                            PosRes05 \div 5, Adv(r, 3 * strokes))
         ELSE Spawned(ps, Adv(r, 3 * strokes))

\* draw_face_garden(), "Spawn pollen/particles", face by face
RECURSIVE draw_face_garden(_, _, _)
draw_face_garden(ps, faces, r) ==
    IF faces = << >>
    THEN Spawned(ps, r)
    ELSE IF Chance(r, 3)
         THEN draw_face_garden(
                  spawn_particle(
                      ps,
                      FaceCx(Head(faces))
                          + Rand(Adv(r, 1), -50 * Res05, 50 * Res05) * Milli,
                      FaceCy(Head(faces))
                          + Rand(Adv(r, 2), -50 * Res05, 50 * Res05) * Milli,
                      palettes05.organic, -(PosRes05 \div 20), Adv(r, 3)),
                  Tail(faces), Adv(r, 3 + DrawsPerSpawn))
         ELSE draw_face_garden(ps, Tail(faces), Adv(r, 1))

\* draw_sound_sculpture(), "Motion adds particles": n particles on a ring
\* around the centre of the canvas
RECURSIVE SpawnRing(_, _, _)
SpawnRing(ps, n, r) ==
    IF n = 0
    THEN Spawned(ps, r)
    ELSE LET angle == Rand(r, 0, TWO_PI)
             dist == Rand(Adv(r, 1), 100 * Res05, 300 * Res05)
         IN  SpawnRing(
                 spawn_particle(ps,
                                (Width05 * PosRes05) \div 2 + Cos(angle) * dist,
                                (Height05 * PosRes05) \div 2 + Sin(angle) * dist,
                                palettes05.digital, 0, Adv(r, 2)),
                 n - 1, Adv(r, 2 + DrawsPerSpawn))

draw_sound_sculpture(ps, motion_level, r) ==
    IF motion_level > 20
    THEN SpawnRing(ps, (motion_level * 3) \div 100, r)
    ELSE Spawned(ps, r)

\* draw_face_responses(), "Spawn particles", face by face
RECURSIVE draw_face_responses(_, _, _)
draw_face_responses(ps, faces, r) ==
    IF faces = << >>
    THEN Spawned(ps, r)
    ELSE IF Chance(r, 5)
         THEN draw_face_responses(
                  spawn_particle(ps, FaceCx(Head(faces)), FaceCy(Head(faces)),
                                 palettes05.cool, 0, Adv(r, 1)),
                  Tail(faces), Adv(r, 1 + DrawsPerSpawn))
         ELSE draw_face_responses(ps, Tail(faces), Adv(r, 1))

\* draw(), "Draw based on mode"; draw_collective_memory() (mode 4) spawns
\* nothing, draw_full_installation() (mode 5) spawns in draw_face_responses()
DrawMode05(m, ps, faces, flow, strokes, motion_level, r) ==
    CASE m = 0 -> draw_presence_field(ps, Len(faces), motion_level, r)
      [] m = 1 -> draw_motion_painting(ps, flow, strokes, motion_level, r)
      [] m = 2 -> draw_face_garden(ps, faces, r)
      [] m = 3 -> draw_sound_sculpture(ps, motion_level, r)
      [] m = 5 -> draw_face_responses(ps, faces, r)
      [] OTHER -> Spawned(ps, r)

\* a limit that drops the newest particles
LimitNewest(ps) ==
    IF Len(ps) > ParticleCap THEN SubSeq(ps, 1, ParticleCap) ELSE ps

\* update_particles(): while len(particles) > 500: particles.pop(0)
RECURSIVE Limit(_)
Limit(ps) == IF Len(ps) > ParticleCap THEN Limit(Tail(ps)) ELSE ps

\* py5.sqrt, rounded down to the unit
RECURSIVE Newton(_, _)
Newton(n, x) ==
    LET y == (x + n \div x) \div 2
    IN  IF y >= x THEN x ELSE Newton(n, y)

Sqrt(n) == IF n < 2 THEN n ELSE Newton(n, n)

\* update_particles(), "Apply attractors": one attractor on one particle.
\* dx, dy and dist are in units of 1/Res05 pixel; the velocity gains
\* (dx / dist) * strength / (dist * dist) * 50 pixels
Attract(p, att) ==
    LET dx == att.x * Res05 - p.x \div Milli
        dy == att.y * Res05 - p.y \div Milli
        sq == Sqrt(dx * dx + dy * dy)
        dist == IF sq < 10 * Res05 THEN 10 * Res05 ELSE sq
        force == (att.strength * 50 * PosRes05 * Res05 * Res05) \div dist
    IN  [ p EXCEPT !.vx = @ + TruncDiv(force * dx, dist * dist),
                   !.vy = @ + TruncDiv(force * dy, dist * dist) ]

\* for att in attractors
RECURSIVE Attracted(_, _)
Attracted(p, atts) ==
    IF atts = << >> THEN p ELSE Attracted(Attract(p, Head(atts)), Tail(atts))

\* v * 0.99, rounded down to the unit
Damp(v) == (v * Drag) \div 100

\* update_particles(), "Apply attractors" and "Update": one particle
Update05(p, atts) ==
    LET q == Attracted(p, atts)
    IN  [ q EXCEPT !.x = q.x + q.vx,
                   !.y = q.y + q.vy,
                   !.vx = Damp(q.vx),
                   !.vy = Damp(q.vy + q.gravity),
                   !.life = q.life - LifeStep ]

\* update_particles(), "Draw": fill with alpha life, ellipse
Display05(p) ==
    [ kind |-> "ellipse", x |-> p.x, y |-> p.y, w |-> p.size, h |-> p.size,
      col |-> p.col, alpha |-> p.life ]

\* the module globals before setup(), the generator being in state r
Globals05(r) ==
    [ pc |-> "boot", mode |-> 0, particles |-> << >>, attractors |-> << >>,
      rng |-> r, frame_count |-> 0, idx |-> 0, draws |-> << >> ]

\* setup()
setup05(g) == [ g EXCEPT !.pc = "idle" ]

\* draw() up to the call of update_particles(): the drawing function of the
\* mode, given what the camera delivered
draw_spawn05(g, faces, flow, strokes, motion_level) ==
    LET s == DrawMode05(g.mode, g.particles, faces, flow, strokes,
                        motion_level, g.rng)
    IN  [ g EXCEPT !.pc = "spawned",
                   !.frame_count = @ + 1,
                   !.particles = s.particles,
                   !.rng = s.rng,
                   !.draws = << >> ]

\* update_particles(), "Limit particles", and the start of its loop
draw_limit05(g) ==
    LET ps == Limit(g.particles)
    IN  [ g EXCEPT !.pc = "loop", !.particles = ps, !.idx = Len(ps) ]

\* update_particles(): attract, update and draw particle i
draw_particle05(g) ==
    LET p == Update05(g.particles[g.idx], g.attractors)
    IN  [ g EXCEPT !.pc = "expire",
                   !.particles[g.idx] = p,
                   !.draws = Append(@, Display05(p)) ]

\* update_particles(), "Remove dead": if p['life'] <= 0: particles.pop(i)
draw_expire05(g) ==
    [ g EXCEPT !.pc = "loop",
               !.particles = IF @[g.idx].life <= 0 THEN Pop(@, g.idx) ELSE @,
               !.idx = @ - 1 ]

\* the end of update_particles() and of draw()
draw_end05(g) == [ g EXCEPT !.pc = "idle", !.draws = << >> ]

\* key_pressed(), keys '1'..'6': mode m = 0..5
key_mode05(g, m) == [ g EXCEPT !.mode = m, !.particles = << >> ]

\* key_pressed(), key ' ': an attractor at the mouse, the oldest one dropped
\* when there are more than the cap
key_space05(g, mx, my) ==
    LET atts == Append(g.attractors, [ x |-> mx, y |-> my, strength |-> 1 ])
    IN  [ g EXCEPT !.attractors =
                       IF Len(atts) > AttractorCap THEN Tail(atts) ELSE atts ]

\* key_pressed(), key 'c'
key_c05(g) == [ g EXCEPT !.particles = << >>, !.attractors = << >> ]

\* the faces the camera finds: rectangles (fx, fy, fw, fh) of the picture
FaceRects05 == { << 0, 0, 60, 60 >>, << 400, 200, 120, 120 >> }

RECURSIVE FaceLists05(_)
FaceLists05(n) ==
    IF n = 0
    THEN { << >> }
    ELSE FaceLists05(n - 1)
             \cup { Append(fs, f) : fs \in FaceLists05(n - 1), f \in FaceRects05 }

\* the motion levels tried, in hundredths: the least ones that make
\* draw_sound_sculpture() spawn 0..MaxSpawn05 particles
MotionLevels05 == { (100 * n + 2) \div 3 : n \in 0..MaxSpawn05 }

\* what the camera delivers to a frame in mode m: faces, flow, moving cells
\* and motion level, each drawn from the values tried where the drawing
\* function of the mode reads it
Camera05(m) ==
    (IF m \in { 0, 2, 5 } THEN FaceLists05(MaxFaces05) ELSE { << >> })
    \X (IF m = 1 THEN BOOLEAN ELSE { TRUE })
    \X (IF m = 1 THEN 0..MaxStrokes05 ELSE { 0 })
    \X (IF m \in { 0, 1, 3 } THEN MotionLevels05 ELSE { 0 })

\* the mouse positions tried
MousePositions05 == { << 0, 0 >>, << Width05 - 1, Height05 - 1 >> }

\* the day 5 sketch is not run
Off05 == [ Globals05(0) EXCEPT !.pc = "off" ]

----------------------------------------------------------------------------
(* the state of the module before setup() *)

ModuleGlobals ==
    /\ pc = "boot"
    /\ table = << >>
    /\ cols = 0 /\ rows = 0
    /\ field = << >>
    /\ particles = << >>
    /\ current_artist = "monet"
    /\ z_offset = 0 /\ t = 0
    /\ show_field = FALSE /\ show_trails = TRUE
    /\ frame_count = 0
    /\ artist = "monet"
    /\ idx = 0
    /\ draws = << >>

\* the lesson 16 sketch is not run
Off16 == [ Globals16(0) EXCEPT !.pc = "off" ]

\* the two runs before any operation, each on its own
Free16 == [ name |-> "free", run |-> 0, twin |-> 0 ]
\* the two runs receive the same operations from here on
Locked16 == [ name |-> "lock", run |-> 0, twin |-> 0 ]

Lesson16AtRest ==
    /\ run = Off16
    /\ twin = Off16
    /\ phase = Free16

Lesson06AtRest == sketch06 = Off06

Day5AtRest == day5 = Off05

\* the capstone sketch is not run
CapstoneAtRest ==
    /\ pc = "off"
    /\ cols = 0 /\ rows = 0
    /\ field = << >>
    /\ particles = << >>
    /\ current_artist = "monet"
    /\ z_offset = 0 /\ t = 0
    /\ show_field = FALSE /\ show_trails = TRUE
    /\ frame_count = 0
    /\ artist = "monet"
    /\ idx = 0
    /\ draws = << >>
    /\ width = MaxWidth /\ height = MaxHeight /\ scale = CellSize
    /\ pool_size = max_particles
    /\ table = << >>
    /\ rng = 0 /\ noise_seed = 0

\* the variables of the capstone sketch
capstone == << pc, width, height, scale, pool_size, table, cols, rows, field,
               particles, current_artist, z_offset, t, show_field, show_trails,
               rng, noise_seed, frame_count, artist, idx, draws >>

\* the simulation: a small canvas, any generator state, a few noise seeds
Init ==
    /\ ModuleGlobals
    /\ Lesson16AtRest
    /\ Lesson06AtRest
    /\ Day5AtRest
    /\ width = MaxWidth
    /\ height = MaxHeight
    /\ scale = CellSize
    /\ pool_size = max_particles
    /\ rng \in 0..(RngMod - 1)
    /\ noise_seed \in 0..MaxNoiseSeed

\* setup()
Setup ==
    /\ pc = "boot"
    /\ ~SetupFails
    /\ table' = artists
    /\ cols' = GridDim(width, scale)
    /\ rows' = GridDim(height, scale)
    /\ field' = [ i \in 0..(cols' - 1) |-> [ j \in 0..(rows' - 1) |-> 0 ] ]
    /\ particles' = NewPool(table'[current_artist], rng, pool_size, width, height)
    /\ rng' = Adv(rng, DrawsPerReset * pool_size)
    /\ pc' = "idle"
    /\ UNCHANGED << day5, sketch06, run, twin, phase, width, height, scale, pool_size, current_artist, z_offset, t, show_field,
                    show_trails, noise_seed, frame_count, artist, idx, draws >>

\* draw(), lines 225-242: bind artist, update_field, draw_field, enter the loop
DrawBegin ==
    /\ pc = "idle"
    /\ frame_count < MaxFrames
    /\ ~DrawFails
    /\ frame_count' = frame_count + 1
    /\ artist' = current_artist
    /\ field' = update_field(table[current_artist])
    /\ draws' = IF show_field THEN FieldArrows(field', 0, 0, cols, rows) ELSE << >>
    /\ idx' = Len(particles)
    /\ pc' = "loop"
    /\ UNCHANGED << day5, sketch06, run, twin, phase, width, height, scale, pool_size, table, cols, rows, particles, current_artist,
                    z_offset, t, show_field, show_trails, rng, noise_seed >>

\* draw(), lines 245-248: follow, update and display particle i
DrawParticle ==
    /\ pc = "loop"
    /\ idx >= 1
    /\ ~DrawFails
    /\ \E at \in Around(particles[idx]), off \in EdgeTests :
          LET p == Update(Follow(particles[idx], field, scale, cols, rows, at),
                          width, height, off)
          IN  /\ particles' = [ particles EXCEPT ![idx] = p ]
              /\ draws' = Append(draws, Display(p, table[artist], show_trails))
    /\ pc' = "expire"
    /\ UNCHANGED << day5, sketch06, run, twin, phase, width, height, scale, pool_size, table, cols, rows, field, current_artist, z_offset,
                    t, show_field, show_trails, rng, noise_seed, frame_count, artist,
                    idx >>

\* draw(), lines 250-251: replace particle i if it is dead; next i
DrawExpire ==
    /\ pc = "expire"
    /\ ~DrawFails
    /\ IF is_dead(particles[idx])
       THEN /\ particles' = Replace(particles, idx,
                                     Reset(table[artist], rng, width, height))
            /\ rng' = Adv(rng, DrawsPerReset)
       ELSE UNCHANGED << particles, rng >>
    /\ idx' = idx - 1
    /\ pc' = "loop"
    /\ UNCHANGED << day5, sketch06, run, twin, phase, width, height, scale, pool_size, table, cols, rows, field, current_artist, z_offset,
                    t, show_field, show_trails, noise_seed, frame_count, artist,
                    draws >>

\* draw(), lines 253-254: the loop is over; advance z_offset and t
DrawEnd ==
    /\ pc = "loop"
    /\ idx = 0
    /\ z_offset' = AdvanceZ(z_offset)
    /\ t' = t + TStep
    /\ draws' = << >>
    /\ pc' = "idle"
    /\ UNCHANGED << day5, sketch06, run, twin, phase, width, height, scale, pool_size, table, cols, rows, field, particles,
                    current_artist, show_field, show_trails, rng, noise_seed,
                    frame_count, artist, idx >>

\* a switch that is also handled while draw() is in its particle pass
switch_artist_anytime(artist_id) ==
    /\ pc \in { "idle", "loop", "expire" }
    /\ current_artist' = artist_id
    /\ particles' = NewPool(table[artist_id], rng, pool_size, width, height)
    /\ rng' = Adv(rng, DrawsPerReset * pool_size)
    /\ UNCHANGED << day5, sketch06, run, twin, phase, pc, width, height, scale, pool_size, table,
                    cols, rows, field, z_offset, t, show_field, show_trails,
                    noise_seed, frame_count, artist, idx, draws >>

\* a switch that changes the profile and keeps the old pool
switch_artist_keep(artist_id) ==
    /\ pc = "idle"
    /\ current_artist' = artist_id
    /\ UNCHANGED << day5, sketch06, run, twin, phase, pc, width, height, scale, pool_size, table, cols, rows, field, particles, z_offset,
                    t, show_field, show_trails, rng, noise_seed, frame_count, artist,
                    idx, draws >>

\* switch_artist(artist_id): keys '1'..'4'
switch_artist(artist_id) ==
    /\ pc = "idle"
    /\ current_artist' = artist_id
    /\ particles' = NewPool(table[artist_id], rng, pool_size, width, height)
    /\ rng' = Adv(rng, DrawsPerReset * pool_size)
    /\ UNCHANGED << day5, sketch06, run, twin, phase, pc, width, height, scale, pool_size, table, cols, rows, field, z_offset, t,
                    show_field, show_trails, noise_seed, frame_count, artist, idx,
                    draws >>

\* key_pressed(), key 'f'
KeyF ==
    /\ pc = "idle"
    /\ show_field' = ~show_field
    /\ UNCHANGED << day5, sketch06, run, twin, phase, pc, width, height, scale, pool_size, table, cols, rows, field, particles,
                    current_artist, z_offset, t, show_trails, rng, noise_seed,
                    frame_count, artist, idx, draws >>

\* key_pressed(), key 't'
KeyT ==
    /\ pc = "idle"
    /\ show_trails' = ~show_trails
    /\ UNCHANGED << day5, sketch06, run, twin, phase, pc, width, height, scale, pool_size, table, cols, rows, field, particles,
                    current_artist, z_offset, t, show_field, rng, noise_seed,
                    frame_count, artist, idx, draws >>

\* a pool reset that rebuilds only the particles that are dead
KeyROnlyDead ==
    /\ pc = "idle"
    /\ particles' = [ k \in 1..Len(particles) |->
                        IF is_dead(particles[k])
                        THEN Reset(table[current_artist],
                                   Adv(rng, DrawsPerReset * (k - 1)), width, height)
                        ELSE particles[k] ]
    /\ rng' = Adv(rng, DrawsPerReset * pool_size)
    /\ UNCHANGED << day5, sketch06, run, twin, phase, pc, width, height, scale, pool_size, table,
                    cols, rows, field, current_artist, z_offset, t, show_field,
                    show_trails, noise_seed, frame_count, artist, idx, draws >>

\* key_pressed(), key 'r'
KeyR ==
    /\ pc = "idle"
    /\ particles' = NewPool(table[current_artist], rng, pool_size, width, height)
    /\ rng' = Adv(rng, DrawsPerReset * pool_size)
    /\ UNCHANGED << day5, sketch06, run, twin, phase, pc, width, height, scale, pool_size, table, cols, rows, field, current_artist,
                    z_offset, t, show_field, show_trails, noise_seed, frame_count,
                    artist, idx, draws >>

KeyArtist == \E a \in ArtistIds : switch_artist(a)

Next ==
    \/ Setup
    \/ DrawBegin
    \/ DrawParticle
    \/ DrawExpire
    \/ DrawEnd
    \/ KeyArtist
    \/ KeyF
    \/ KeyT
    \/ KeyR

Spec == Init /\ [][Next]_vars

----------------------------------------------------------------------------
(* Grid construction over many canvas and cell sizes: setup() and the frames *)
(* that follow it, without key presses.                                      *)

\* the canvas and cell sizes of lessons 07 and 17
SourceSizes == { << 800, 600, 20 >>, << 1200, 800, 15 >> }

InitGrid ==
    /\ ModuleGlobals
    /\ Lesson16AtRest
    /\ Lesson06AtRest
    /\ Day5AtRest
    /\ \/ /\ width \in 1..MaxCanvas
          /\ height \in 1..MaxCanvas
          /\ scale \in 1..MaxCell
       \/ \E sz \in SourceSizes : width = sz[1] /\ height = sz[2] /\ scale = sz[3]
    /\ pool_size = max_particles
    /\ rng = 0
    /\ noise_seed = 0

NextGrid ==
    \/ Setup
    \/ DrawBegin
    \/ DrawParticle
    \/ DrawExpire
    \/ DrawEnd

SpecGrid == InitGrid /\ [][NextGrid]_vars

----------------------------------------------------------------------------
(* Configurations: setup() and the frames that follow it when the module     *)
(* globals scale and max_particles are not the ones the source writes down:  *)
(* a cell size that is zero or negative, a smaller or an empty pool.  The    *)
(* canvas is the one py5.size() makes and the profiles are the ones          *)
(* init_artists() builds, as in every run of the sketch.                     *)

\* the cell sizes tried: -MaxNegative..MaxConfig
MaxNegative == 1
MaxConfig == 3
ConfigSizes == (-MaxNegative)..MaxConfig

InitConfig ==
    /\ ModuleGlobals
    /\ Lesson16AtRest
    /\ Lesson06AtRest
    /\ Day5AtRest
    /\ rng \in 0..(RngMod - 1)
    /\ noise_seed = 0
    /\ width = MaxWidth
    /\ height = MaxHeight
    /\ scale \in ConfigSizes
    /\ pool_size \in 0..max_particles

\* setup() raises: init_artists() has run, line 128 divides by zero
SetupRaises ==
    /\ pc = "boot"
    /\ SetupFails
    /\ table' = artists
    /\ pc' = "setup_raised"
    /\ UNCHANGED << day5, sketch06, run, twin, phase, width, height, scale, pool_size, cols, rows, field,
                    particles, current_artist, z_offset, t, show_field,
                    show_trails, rng, noise_seed, frame_count, artist, idx, draws >>

\* draw() raises at particle i: in follow(), before the particle is touched,
\* or in display(), after follow() and update() have moved it
DrawRaises ==
    /\ pc = "loop"
    /\ DrawFails
    /\ IF FollowRaises(particles[idx])
       THEN particles' = particles
       ELSE \E at \in Around(particles[idx]), off \in EdgeTests :
               particles' =
                   [ particles EXCEPT
                       ![idx] = Update(Follow(particles[idx], field, scale, cols,
                                              rows, at),
                                       width, height, off) ]
    /\ pc' = "draw_raised"
    /\ UNCHANGED << day5, sketch06, run, twin, phase, width, height, scale, pool_size, table, cols, rows, field,
                    current_artist, z_offset, t, show_field,
                    show_trails, rng, noise_seed, frame_count, artist, idx, draws >>

NextConfig ==
    \/ Setup
    \/ SetupRaises
    \/ DrawBegin
    \/ DrawParticle
    \/ DrawExpire
    \/ DrawEnd
    \/ DrawRaises

SpecConfig == InitConfig /\ [][NextConfig]_vars

----------------------------------------------------------------------------
(* Lesson 16, one run: setup(), then draw() and the keys 'v', 'r', 'h' in    *)
(* any order.                                                                *)

\* py5.random is in any state before setup() seeds it
Init16 ==
    /\ CapstoneAtRest
    /\ Lesson06AtRest
    /\ Day5AtRest
    /\ \E r \in 0..(RngMod - 1) : run = Globals16(r)
    /\ twin = Off16
    /\ phase = Free16

Setup16 ==
    /\ run.pc = "boot"
    /\ run' = setup16(run)
    /\ UNCHANGED << day5, sketch06, capstone, twin, phase >>

Draw16 ==
    /\ run.pc = "idle"
    /\ run.frame_count < MaxFrames16
    /\ \E moved \in Moves16(run) : run' = draw16(run, moved)
    /\ UNCHANGED << day5, sketch06, capstone, twin, phase >>

KeyV16 ==
    /\ run.pc = "idle"
    /\ run' = key_v(run)
    /\ UNCHANGED << day5, sketch06, capstone, twin, phase >>

KeyR16 ==
    /\ run.pc = "idle"
    /\ run' = key_r(run)
    /\ UNCHANGED << day5, sketch06, capstone, twin, phase >>

KeyH16 ==
    /\ run.pc = "idle"
    /\ run' = save_high_res(run)
    /\ UNCHANGED << day5, sketch06, capstone, twin, phase >>

Next16 ==
    \/ Setup16
    \/ Draw16
    \/ KeyV16
    \/ KeyR16
    \/ KeyH16

Spec16 == Init16 /\ [][Next16]_vars

----------------------------------------------------------------------------
(* Lesson 16, two runs.  Each run first goes its own way (phase "free"),     *)
(* receiving up to MaxFree operations, each of them draw() or any key, so    *)
(* that the two differ in pool, time, seed, generator, export state and      *)
(* frame count; then both are reseeded with one                              *)
(* and the same seed, by setup() or by start_sequence_export(), and from     *)
(* there on receive the same operations (phase "lock").  Each run is a run   *)
(* of the handlers on its own record; nothing is copied from one run to the  *)
(* other.                                                                    *)

\* the operations a run receives on its own: all of them
FreeOps == Ops16

\* a run receives an operation on its own, having received n of them
FreeOp(g, n) ==
    /\ g.pc = "idle"
    /\ n < MaxFree

Init16Pair ==
    /\ CapstoneAtRest
    /\ Lesson06AtRest
    /\ Day5AtRest
    /\ \E r \in 0..MaxNoiseSeed : run = Globals16(r)
    /\ \E r \in 0..MaxNoiseSeed : twin = Globals16(RngMod - 1 - r)
    /\ phase = Free16

\* one run alone receives setup() or an operation
FreeRun ==
    /\ phase.name = "free"
    /\ \/ /\ run.pc = "boot"
          /\ run' = setup16(run)
          /\ phase' = phase
       \/ /\ FreeOp(run, phase.run)
          /\ \E op \in FreeOps, moved \in Moves16(run) :
                run' = Apply(op, run, moved)
          /\ phase' = [ phase EXCEPT !.run = @ + 1 ]
    /\ UNCHANGED << day5, sketch06, capstone, twin >>

\* the other run alone receives setup() or an operation
FreeTwin ==
    /\ phase.name = "free"
    /\ \/ /\ twin.pc = "boot"
          /\ twin' = setup16(twin)
          /\ phase' = phase
       \/ /\ FreeOp(twin, phase.twin)
          /\ \E op \in FreeOps, moved \in Moves16(twin) :
                twin' = Apply(op, twin, moved)
          /\ phase' = [ phase EXCEPT !.twin = @ + 1 ]
    /\ UNCHANGED << day5, sketch06, capstone, run >>

\* both runs are started by setup()
LockSetup ==
    /\ phase.name = "free"
    /\ run.pc = "boot" /\ twin.pc = "boot"
    /\ run' = setup16(run)
    /\ twin' = setup16(twin)
    /\ phase' = Locked16
    /\ UNCHANGED << day5, sketch06, capstone >>

\* both runs, holding the same seed, start a sequence export
LockExport ==
    /\ phase.name = "free"
    /\ run.pc = "idle" /\ twin.pc = "idle"
    /\ run.seed_value = twin.seed_value
    /\ ~run.exporting_sequence /\ ~twin.exporting_sequence
    /\ run' = key_v(run)
    /\ twin' = key_v(twin)
    /\ phase' = Locked16
    /\ UNCHANGED << day5, sketch06, capstone >>

\* both runs receive the same operation, each on its own record; the
\* arithmetic of the machine, a function of the operands, is the same for both
Both ==
    /\ phase.name = "lock"
    /\ \E op \in Ops16 :
          /\ op = "draw" => /\ run.frame_count < MaxFrames16
                            /\ twin.frame_count < MaxFrames16
          /\ \E f \in Fpu16(Operands16(run) \cup Operands16(twin)) :
                /\ run' = Apply(op, run, Moved16(run, f))
                /\ twin' = Apply(op, twin, Moved16(twin, f))
    /\ UNCHANGED << day5, sketch06, capstone, phase >>

Next16Pair ==
    \/ FreeRun
    \/ FreeTwin
    \/ LockSetup
    \/ LockExport
    \/ Both

Spec16Pair == Init16Pair /\ [][Next16Pair]_vars

----------------------------------------------------------------------------
(* Lesson 06, one run: setup(), then draw(), mouse clicks and the keys       *)
(* '1'..'4' and 'c' in any order.  py5 runs the handlers on one thread: a    *)
(* click or a key is handled between two draw() calls.                       *)

\* py5.random is in any state when the sketch starts
Init06 ==
    /\ CapstoneAtRest
    /\ Lesson16AtRest
    /\ Day5AtRest
    /\ \E r \in 0..(RngMod - 1) : sketch06 = Globals06(r)

Setup06 ==
    /\ sketch06.pc = "boot"
    /\ sketch06' = setup06(sketch06)
    /\ UNCHANGED << day5, capstone, run, twin, phase >>

DrawBegin06 ==
    /\ sketch06.pc = "idle"
    /\ sketch06.frame_count < MaxFrames06
    /\ sketch06' = draw_begin06(sketch06)
    /\ UNCHANGED << day5, capstone, run, twin, phase >>

DrawParticle06 ==
    /\ sketch06.pc = "loop"
    /\ sketch06.idx >= 1
    /\ sketch06' = draw_particle06(sketch06)
    /\ UNCHANGED << day5, capstone, run, twin, phase >>

DrawExpire06 ==
    /\ sketch06.pc = "expire"
    /\ \E off \in BOOLEAN : sketch06' = draw_expire06(sketch06, off)
    /\ UNCHANGED << day5, capstone, run, twin, phase >>

DrawEnd06 ==
    /\ sketch06.pc = "loop"
    /\ sketch06.idx = 0
    /\ sketch06' = draw_end06(sketch06)
    /\ UNCHANGED << day5, capstone, run, twin, phase >>

Mouse06 ==
    /\ sketch06.pc = "idle"
    /\ sketch06.mode = 1 => Len(sketch06.particles) + Burst06 <= MaxList06
    /\ \E m \in MousePositions06 : sketch06' = mouse_pressed06(sketch06, m[1], m[2])
    /\ UNCHANGED << day5, capstone, run, twin, phase >>

KeyMode06 ==
    /\ sketch06.pc = "idle"
    /\ \E m \in 0..3 : sketch06' = key_mode06(sketch06, m)
    /\ UNCHANGED << day5, capstone, run, twin, phase >>

KeyC06 ==
    /\ sketch06.pc = "idle"
    /\ sketch06' = key_c06(sketch06)
    /\ UNCHANGED << day5, capstone, run, twin, phase >>

Next06 ==
    \/ Setup06
    \/ DrawBegin06
    \/ DrawParticle06
    \/ DrawExpire06
    \/ DrawEnd06
    \/ Mouse06
    \/ KeyMode06
    \/ KeyC06

Spec06 == Init06 /\ [][Next06]_vars

----------------------------------------------------------------------------
(* Lesson 06, a run that falls quiet: clicks and keys arrive only before     *)
(* frame InputFrames06; after that the host sends nothing but draw().  py5   *)
(* calls setup() once and then draw() for every frame, so setup() and the    *)
(* steps of draw() are taken whenever they stay enabled.                     *)

\* frames before which clicks and keys arrive
InputFrames06 == 1

MouseEarly06 == sketch06.frame_count < InputFrames06 /\ Mouse06

KeyModeEarly06 == sketch06.frame_count < InputFrames06 /\ KeyMode06

\* a step of draw()
Draw06 == DrawBegin06 \/ DrawParticle06 \/ DrawExpire06 \/ DrawEnd06

NextQuiet06 ==
    \/ Setup06
    \/ DrawBegin06
    \/ DrawParticle06
    \/ DrawExpire06
    \/ DrawEnd06
    \/ MouseEarly06
    \/ KeyModeEarly06

SpecQuiet06 ==
    /\ Init06
    /\ [][NextQuiet06]_vars
    /\ WF_vars(Setup06)
    /\ WF_vars(Draw06)

----------------------------------------------------------------------------
(* Day 5 installation, one run: setup(), then draw() with whatever the       *)
(* camera makes the frame spawn, and the keys '1'..'6' and 'c' between two   *)
(* draw() calls.                                                             *)

InitDay5 ==
    /\ CapstoneAtRest
    /\ Lesson16AtRest
    /\ Lesson06AtRest
    /\ \E r \in 0..(RngMod - 1) : day5 = Globals05(r)

Setup05 ==
    /\ day5.pc = "boot"
    /\ day5' = setup05(day5)
    /\ UNCHANGED << sketch06, capstone, run, twin, phase >>

DrawSpawn05 ==
    /\ day5.pc = "idle"
    /\ day5.frame_count < MaxFrames05
    /\ \E in \in Camera05(day5.mode) :
          day5' = draw_spawn05(day5, in[1], in[2], in[3], in[4])
    /\ UNCHANGED << sketch06, capstone, run, twin, phase >>

DrawLimit05 ==
    /\ day5.pc = "spawned"
    /\ day5' = draw_limit05(day5)
    /\ UNCHANGED << sketch06, capstone, run, twin, phase >>

DrawParticle05 ==
    /\ day5.pc = "loop"
    /\ day5.idx >= 1
    /\ day5' = draw_particle05(day5)
    /\ UNCHANGED << sketch06, capstone, run, twin, phase >>

DrawExpire05 ==
    /\ day5.pc = "expire"
    /\ day5' = draw_expire05(day5)
    /\ UNCHANGED << sketch06, capstone, run, twin, phase >>

DrawEnd05 ==
    /\ day5.pc = "loop"
    /\ day5.idx = 0
    /\ day5' = draw_end05(day5)
    /\ UNCHANGED << sketch06, capstone, run, twin, phase >>

KeyMode05 ==
    /\ day5.pc = "idle"
    /\ \E m \in 0..5 : day5' = key_mode05(day5, m)
    /\ UNCHANGED << sketch06, capstone, run, twin, phase >>

KeySpace05 ==
    /\ day5.pc = "idle"
    /\ \E at \in MousePositions05 : day5' = key_space05(day5, at[1], at[2])
    /\ UNCHANGED << sketch06, capstone, run, twin, phase >>

KeyC05 ==
    /\ day5.pc = "idle"
    /\ day5' = key_c05(day5)
    /\ UNCHANGED << sketch06, capstone, run, twin, phase >>

NextDay5 ==
    \/ Setup05
    \/ DrawSpawn05
    \/ DrawLimit05
    \/ DrawParticle05
    \/ DrawExpire05
    \/ DrawEnd05
    \/ KeyMode05
    \/ KeySpace05
    \/ KeyC05

SpecDay5 == InitDay5 /\ [][NextDay5]_vars

----------------------------------------------------------------------------
(* Either sketch: a run of the capstone sketch or a run of lesson 16.        *)

InitSketches == Init \/ Init16

NextSketches == Next \/ Next16

SpecSketches == InitSketches /\ [][NextSketches]_vars

----------------------------------------------------------------------------
(* Properties *)

\* the pool positions
Pool == 1..Len(particles)
\* canvas extents in position units
W == width * PosRes
H == height * PosRes

\* C1 -- Pool size invariant: once setup() has run, before, during and after
\* every tick, and across artist switches and pool resets, the pool holds
\* exactly max_particles particles.
C1_PoolSize == pc # "boot" => Len(particles) = max_particles

\* C1 witness: between ticks, after an artist switch, one particle has just
\* been replaced on expiry while another lives on.
C1_Witness ==
    /\ pc = "idle" /\ frame_count >= 2 /\ current_artist # "monet"
    /\ Len(particles) = max_particles
    /\ \E i, j \in Pool : particles[i].age = 0 /\ particles[j].age > 0

\* C2 as claimed -- after every tick every particle rests in the half-open
\* ranges 0 <= x < canvas_width and 0 <= y < canvas_height.
C2_HalfOpen ==
    pc = "idle" => \A i \in Pool : /\ 0 <= particles[i].x /\ particles[i].x < W
                                    /\ 0 <= particles[i].y /\ particles[i].y < H

\* C2 amended -- every particle always rests in the closed ranges
\* 0 <= x <= canvas_width and 0 <= y <= canvas_height.
C2_Closed ==
    \A i \in Pool : /\ 0 <= particles[i].x /\ particles[i].x <= W
                     /\ 0 <= particles[i].y /\ particles[i].y <= H

\* C2 witness: after a tick a particle rests exactly on the right or bottom edge.
C2_Witness ==
    /\ pc = "idle" /\ frame_count >= 1
    /\ \E i \in Pool : particles[i].age > 0
                         /\ (particles[i].x = W \/ particles[i].y = H)

\* one axis of a trail segment: the plain step (position = previous +
\* velocity), a step that ended on an edge within the rounding of the step,
\* or a wrap that put previous and position on the same edge
NoStreakAxis(pos, prev, vel, extent, slack) ==
    \/ pos = prev + vel
    \/ /\ pos \in { 0, extent }
       /\ Abs(prev + vel - pos) <= slack
       /\ Abs(pos - prev) <= Abs(vel)
    \/ pos = prev /\ pos \in { 0, extent }

\* C3 -- Wrap-around no-streak: on each axis, a particle's trail segment is the
\* step it just made, or, when the step wrapped, previous_position equals the
\* wrapped position; so no segment is longer than |velocity| on that axis.
C3_NoStreak ==
    \A i \in Pool :
        LET p == particles[i]
        IN  /\ NoStreakAxis(p.x, p.prev_x, p.vx, W, PosErr(p))
            /\ NoStreakAxis(p.y, p.prev_y, p.vy, H, PosErr(p))
            /\ (p.x - p.prev_x) * (p.x - p.prev_x) <= p.vx * p.vx
            /\ (p.y - p.prev_y) * (p.y - p.prev_y) <= p.vy * p.vy

\* C3 witness: a particle has just been updated and rendered after stepping
\* over the right edge: it sits at x = 0 with previous_position.x = 0 too.
C3_Witness ==
    /\ pc = "expire"
    /\ particles[idx].vx > 0
    /\ particles[idx].x = 0 /\ particles[idx].prev_x = 0

\* C4 as claimed -- Age invariant: between ticks and at the moment a particle is
\* rendered (pc = "expire": it has just been updated and displayed), its age
\* satisfies 0 <= age <= lifespan, the lifespan being the value drawn at
\* creation from the configured range.
C4_AgeInvariant ==
    \A i \in Pool :
        /\ 0 <= particles[i].age
        /\ particles[i].age * Res <= particles[i].lifespan
        /\ lifespan_min * Res <= particles[i].lifespan
        /\ particles[i].lifespan < lifespan_max * Res

\* C5 -- Lifespan monotonicity: with L the whole number of ticks a lifespan
\* lasts (L = lifespan when it is whole), a particle is not expired after each
\* of its first L - 1 ticks and is expired after its L-th; an expired particle
\* exists only between its L-th update and its replacement in the same tick.
C5_Lifespan ==
    \A i \in Pool :
        LET p == particles[i]
            L == CeilDiv(p.lifespan, Res)
        IN  /\ p.age <= L
            /\ is_dead(p) <=> p.age = L
            /\ p.age = L => pc = "expire" /\ i = idx

\* C5 witness: a particle with the whole lifespan L = 2 has just made its
\* second tick and is expired, awaiting replacement.
C5_Witness ==
    /\ pc = "expire"
    /\ particles[idx].lifespan = 2 * Res
    /\ particles[idx].age = 2
    /\ is_dead(particles[idx])

\* the colours of a profile's palette
PaletteOf(a) == { artists[a].palette[k] : k \in 1..Len(artists[a].palette) }

\* C6 -- Profile switch resets all particles: after setup, after every artist
\* switch and after any number of ticks and expiry replacements, every
\* particle's colour belongs to the palette of the active profile.
C6_Palette ==
    pc # "boot" => \A i \in Pool : particles[i].col \in PaletteOf(current_artist)

\* C6 witness: under a profile other than the initial one, a tick has replaced
\* an expired particle, and the pool's colours are outside the initial palette.
C6_Witness ==
    /\ pc = "loop" /\ idx = 0
    /\ current_artist = "kandinsky"
    /\ \E i, j \in Pool : particles[i].age = 0 /\ particles[j].age > 0
    /\ \A i \in Pool : particles[i].col \notin PaletteOf("monet")

\* the cell index of a coordinate: floor(coord / cell size) clamped to 0..n-1
FloorCell(coord, n) ==
    LET f == coord \div (scale * PosRes)
    IN  IF f < 0 THEN 0 ELSE IF f > n - 1 THEN n - 1 ELSE f

\* the coordinates from one cell before the canvas to one cell beyond it, taken
\* at every 1/Res pixel and one position unit to either side of it (the cell
\* borders and the canvas edges lie on whole pixels)
Coords(extent) ==
    { k * Milli + d : k \in (-(scale * Res))..((extent + scale) * Res),
                      d \in { -1, 0, 1 } }

\* C7 -- Grid bounds: the cell follow() looks up is inside the field for every
\* particle, and for every coordinate from one cell before the canvas to one
\* cell beyond it (0, the canvas edge and beyond included); the index is
\* floor(coordinate / cell_size) clamped to the valid range.
C7_GridBounds ==
    pc # "boot" =>
        /\ \A i \in Pool : \A at \in Around(particles[i]) :
              /\ CellIndex(at[1], scale, cols) \in DOMAIN field
              /\ CellIndex(at[2], scale, rows)
                    \in DOMAIN field[CellIndex(at[1], scale, cols)]
        /\ \A c \in Coords(width) :
              /\ CellIndex(c, scale, cols) \in DOMAIN field
              /\ CellIndex(c, scale, cols) = FloorCell(c, cols)
        /\ \A c \in Coords(height) :
              /\ CellIndex(c, scale, rows) \in DOMAIN field[0]
              /\ CellIndex(c, scale, rows) = FloorCell(c, rows)

\* C7 witness: the particle about to follow the field rests exactly on the
\* right edge of the canvas and reads the last column.
C7_Witness ==
    /\ pc = "loop" /\ idx >= 1
    /\ particles[idx].x = W
    /\ CellIndex(particles[idx].x, scale, cols) = cols - 1

\* C8 as claimed -- columns == ceil(canvas_width / cell_size) and
\* rows == ceil(canvas_height / cell_size) from setup on.
C8_CeilDims ==
    pc # "boot" => cols = CeilDiv(width, scale) /\ rows = CeilDiv(height, scale)

\* C8 amended -- from setup on, columns == floor(canvas_width / cell_size) + 1
\* and rows == floor(canvas_height / cell_size) + 1: the smallest counts whose
\* cells reach beyond the canvas edge, one more than the ceiling when the cell
\* size divides the canvas size; the field has exactly these dimensions.
C8_GridDims ==
    pc # "boot" =>
        /\ (cols - 1) * scale <= width /\ width < cols * scale
        /\ (rows - 1) * scale <= height /\ height < rows * scale
        /\ cols = CeilDiv(width, scale) + (IF width % scale = 0 THEN 1 ELSE 0)
        /\ rows = CeilDiv(height, scale) + (IF height % scale = 0 THEN 1 ELSE 0)
        /\ DOMAIN field = 0..(cols - 1)
        /\ \A i \in DOMAIN field : DOMAIN field[i] = 0..(rows - 1)

\* C8 witness: the 800 x 600 canvas with cell size 20 has 41 x 31 cells, still
\* so after a tick.
C8_Witness ==
    /\ pc = "idle" /\ frame_count >= 1
    /\ width = 800 /\ height = 600 /\ scale = 20
    /\ cols = 41 /\ rows = 31

\* C9 -- No stale angles: throughout the particle pass of a tick the field is
\* the one computed from the active profile at the current time offset, and
\* the profile draw() works with is the active one.
C9_NoStale ==
    pc \in { "loop", "expire" } =>
        /\ artist = current_artist
        /\ field = UpdateField(artists[current_artist], z_offset, noise_seed, cols, rows)

\* C9 witness: in a later tick under another profile a particle is about to
\* read the field, which differs from the field of the previous tick and from
\* the field the initial profile would give.
C9_Witness ==
    /\ pc = "loop" /\ idx >= 1 /\ frame_count >= 2
    /\ current_artist = "vangogh"
    /\ field # UpdateField(artists["monet"], z_offset, noise_seed, cols, rows)
    /\ field # UpdateField(artists[current_artist], z_offset - ZStep, noise_seed,
                            cols, rows)

\* C10 as claimed -- time_offset is advanced before the grid update, so the
\* angles followed in the n-th tick are sampled at initial + n * increment.
C10_AdvanceFirst ==
    pc \in { "loop", "expire" } =>
        field = UpdateField(artists[artist], frame_count * ZStep, noise_seed, cols, rows)

\* C10 amended -- the grid is updated first, at the time offset the previous
\* tick left, and time_offset is advanced last, after the particle pass: the
\* angles followed in the n-th tick are sampled at initial + (n - 1) *
\* increment, the whole grid is written before the first particle moves, and
\* after n ticks time_offset is initial + n * increment.
C10_UpdateThenAdvance ==
    /\ pc \in { "loop", "expire" } =>
          /\ z_offset = (frame_count - 1) * ZStep
          /\ field = UpdateField(artists[artist], (frame_count - 1) * ZStep,
                                 noise_seed, cols, rows)
    /\ pc = "idle" => z_offset = frame_count * ZStep

\* C10 witness: in the second tick a particle has been moved by a field that
\* differs from the one sampled at initial + 2 * increment.
C10_Witness ==
    /\ pc = "expire" /\ frame_count = 2
    /\ z_offset = ZStep
    /\ field # UpdateField(artists[artist], 2 * ZStep, noise_seed, cols, rows)

\* the requests in draws that particles emitted (draw_field's arrows left out)
ParticleDraws == SelectSeq(draws, LAMBDA d : d.kind # "arrow")

\* C11 as claimed -- Fade-out alpha: every particle draw request of a tick
\* carries an alpha in [0, opacity] of the profile draw() works with; it is
\* never negative and never above opacity.
C11_AlphaRange ==
    \A k \in 1..Len(ParticleDraws) :
        /\ 0 <= ParticleDraws[k].alpha
        /\ ParticleDraws[k].alpha <= artists[artist].opacity


\* the keys of a profile that the sketch reads
ProfileKeys == { "palette", "speed_range", "stroke_weight", "opacity",
                 "flow_scale", "flow_multiplier" }

\* C12 -- Never fail at tick time: once setup() has succeeded, under every
\* sequence of ticks, artist switches, pool resets and display toggles, no step
\* of draw() raises: the field lookup of every particle is inside the field,
\* no lifespan is zero (no division by zero in the fade ratio) and the active
\* profile has every key that draw(), update_field, display and reset read,
\* with a palette that is not empty.
C12_NeverFails ==
    pc # "boot" =>
        /\ ~DrawFails
        /\ { current_artist, artist } \subseteq DOMAIN table
        /\ ProfileKeys \subseteq DOMAIN table[current_artist]
        /\ Len(table[current_artist].palette) > 0
        /\ \A i \in Pool :
              /\ ~FollowRaises(particles[i])
              /\ ~DisplayRaises(particles[i])

\* C12 witness: in the last tick followed, after an artist switch and with
\* trails switched off, a particle that has lived through earlier ticks and
\* rests on the bottom edge of the canvas is about to follow the field.
C12_Witness ==
    /\ pc = "loop" /\ idx >= 1 /\ frame_count = MaxFrames
    /\ current_artist # "monet" /\ ~show_trails
    /\ particles[idx].age > 0
    /\ particles[idx].y = H
    /\ CellIndex(particles[idx].y, scale, rows) = rows - 1


\* C13 as claimed -- Configuration errors are raised at construction: when the
\* canvas width, the canvas height or the cell size is zero or negative,
\* setup() fails, so the sketch never gets past setup() and no tick runs.
C13_ConfigRejected ==
    (width <= 0 \/ height <= 0 \/ scale <= 0) => pc \in { "boot", "setup_raised" }


\* C15 as claimed -- Empty pool is a no-op: with a pool of size zero, no step
\* after setup() changes the pool, the field or the time offsets (a tick does
\* nothing).
C15_NoOp ==
    [][ (pool_size = 0 /\ pc # "boot")
            => UNCHANGED << particles, field, z_offset, t >> ]_vars

\* a configuration with positive sizes
ValidConfig == width > 0 /\ height > 0 /\ scale > 0

\* C15 amended -- Empty pool: with a pool of size zero and a valid
\* configuration, setup() and every tick run without raising, the pool stays
\* empty and no particle draw request is emitted; the tick still recomputes the
\* field at the current time offset and then advances z_offset and t by their
\* fixed increments.
C15_EmptyTick ==
    (pool_size = 0 /\ ValidConfig) =>
        /\ pc \notin { "setup_raised", "draw_raised" }
        /\ ~DrawFails
        /\ particles = << >>
        /\ ParticleDraws = << >>
        /\ pc = "loop" =>
              /\ idx = 0
              /\ z_offset = (frame_count - 1) * ZStep
              /\ field = UpdateField(table[artist], z_offset, noise_seed, cols, rows)
        /\ pc = "idle" =>
              /\ z_offset = frame_count * ZStep
              /\ t = frame_count * TStep

\* C15 witness: an empty pool after two ticks: no particle, and the time
\* offsets and the field have moved on from what setup() left.
C15_Witness ==
    /\ pool_size = 0 /\ ValidConfig
    /\ pc = "idle" /\ frame_count = 2
    /\ particles = << >>
    /\ z_offset = 2 * ZStep /\ t = 2 * TStep
    /\ \E i \in DOMAIN field : \E j \in DOMAIN field[i] : field[i][j] # 0


\* C16 as claimed -- time_offset is monotonically increasing: no step of either
\* sketch (tick, artist switch, pool reset, reseed, export start) decreases the
\* time offset (z_offset in the capstone, t in lesson 16).
C16_Monotone ==
    [][ z_offset' >= z_offset /\ run'.t >= run.t ]_vars

\* C16 amended -- every tick advances the time offset exactly once by the fixed
\* increment and no other step changes it, with two exceptions in lesson 16:
\* the reseed (key 'r') and the start of a sequence export (key 'v' while not
\* exporting) set t back to 0, together with a rebuild of the pool from the
\* seed.  In the capstone, which has neither, z_offset never decreases.
C16_AdvanceOrReset ==
    [][ /\ \/ z_offset' = z_offset /\ ~(pc = "loop" /\ pc' = "idle")
           \/ z_offset' = z_offset + ZStep /\ pc = "loop" /\ pc' = "idle"
        /\ \/ /\ run'.frame_count = run.frame_count + 1
              /\ run'.t = run.t + TStep16
           \/ /\ run'.frame_count = run.frame_count
              /\ run'.t \in { run.t, 0 }
              /\ (~run.exporting_sequence /\ run'.exporting_sequence) => run'.t = 0
              /\ run'.seed_value # run.seed_value => run'.t = 0
              /\ run'.t # run.t =>
                    run'.particles = Particles16(random_seed(run'.seed_value),
                                                 num_particles) ]_vars

\* C16 witness: lesson 16 after a reseed that followed at least two ticks: the
\* frame counter has advanced, t is back at 0 and the seed is a new one.
C16_Witness ==
    /\ run.pc = "idle"
    /\ run.frame_count >= 2
    /\ run.t = 0
    /\ run.seed_value # InitialSeed


\* the values py5.random(lo, hi) can return for a range given in tenths
RangeOf(range) == Tenths(range[1])..Tenths(range[2])

\* C17 -- A profile is only swapped between ticks: draw() binds the active
\* profile when the tick begins and computes the field from it; during the
\* particle pass neither the bound profile nor the active one changes, every
\* render alpha is computed from the bound profile's opacity, and every
\* replacement particle is drawn from the bound profile's palette and ranges.
C17_OneProfilePerTick ==
    [][ /\ (pc = "idle" /\ pc' = "loop") =>
              /\ artist' = current_artist /\ current_artist' = current_artist
              /\ field' = UpdateField(table[artist'], z_offset, noise_seed, cols, rows)
        /\ pc \in { "loop", "expire" } =>
              /\ artist' = artist /\ current_artist' = artist
              /\ field' = field
        /\ (pc = "loop" /\ pc' = "expire") =>
              /\ Len(draws') = Len(draws) + 1
              /\ draws'[Len(draws')].alpha = Alpha(particles'[idx], table[artist])
        /\ (pc = "expire" /\ particles' # particles) =>
              /\ particles'[idx].col \in PaletteOf(artist)
              /\ particles'[idx].max_speed \in RangeOf(table[artist].speed_range)
              /\ particles'[idx].stroke_weight \in RangeOf(table[artist].stroke_weight)
      ]_vars

\* C17 witness: in a tick that began under the kandinsky profile, after a switch
\* from another one, one particle has been replaced and another has just been
\* rendered with an alpha of that profile above the opacity of monet's.
C17_Witness ==
    /\ pc = "expire" /\ frame_count >= 2
    /\ artist = "kandinsky" /\ current_artist = "kandinsky"
    /\ idx < Len(particles) /\ particles[Len(particles)].age = 0
    /\ Len(ParticleDraws) >= 2
    /\ ParticleDraws[Len(ParticleDraws)].alpha > table["monet"].opacity


\* C18 -- Determinism under a seed: once two runs have been reseeded with the
\* same seed by setup() or by start_sequence_export(), and have received the
\* same operations since, they agree on the pool, the time, the seeds, the
\* generator state, the export state and the draw requests of the last tick,
\* whatever each run did before the reseed.
C18_SameSeedSameRun ==
    phase.name = "lock" => Shown(run) = Shown(twin)

\* C18 witness: two runs that drew a different number of frames before their
\* export started, and whose seed key 'r' chose, have each drawn at least
\* two frames since, the export is over, particles have been replaced on the
\* way, and the runs agree.
C18_Witness ==
    /\ phase.name = "lock"
    /\ run.frame_count # twin.frame_count
    /\ run.seed_value # InitialSeed
    /\ run.frame_count_export >= sequence_frames /\ ~run.exporting_sequence
    /\ run.t >= 2 * TStep16
    /\ \E k \in 1..Len(run.particles) :
          run.particles[k].life = run.particles[k].max_life
    /\ Len(run.draws) > 3
    /\ run.draws = twin.draws /\ run.particles = twin.particles


\* C19 -- One draw request per particle per tick: during the particle pass the
\* particles already visited have produced exactly one request each, so that a
\* finished pass has as many particle requests as the pool has particles;
\* every request is a line when trails are on and a point mark (an ellipse
\* centred on the position) when they are off, never the other kind; the
\* request of the particle just rendered runs from its previous position to
\* its position, or sits at its position.
C19_OneRequest ==
    /\ pc = "loop" => Len(ParticleDraws) = Len(particles) - idx
    /\ pc = "expire" =>
          /\ Len(ParticleDraws) = Len(particles) - idx + 1
          /\ LET d == ParticleDraws[Len(ParticleDraws)]
                 p == particles[idx]
             IN  /\ d.x1 = p.x /\ d.y1 = p.y
                 /\ d.col = p.col
                 /\ IF show_trails
                    THEN d.x0 = p.prev_x /\ d.y0 = p.prev_y
                    ELSE d.x0 = p.x /\ d.y0 = p.y
    /\ \A k \in 1..Len(ParticleDraws) :
          ParticleDraws[k].kind = IF show_trails THEN "line" ELSE "ellipse"

\* C19 witness: a pass has finished with trails off: one ellipse for each
\* particle of the pool, one of which has moved in this tick.
C19_Witness ==
    /\ pc = "loop" /\ idx = 0 /\ ~show_trails
    /\ Len(ParticleDraws) = Len(particles) /\ Len(particles) >= 2
    /\ \A k \in 1..Len(ParticleDraws) : ParticleDraws[k].kind = "ellipse"
    /\ \E i \in Pool : particles[i].vx # 0 \/ particles[i].vy # 0


\* the capstone's expiry step: the pool keeps its length, no particle other
\* than the one just rendered changes, and that one is replaced by a fresh
\* particle if it is dead and left alone if it is not
InPlace17 ==
    pc = "expire" =>
        /\ Len(particles') = Len(particles)
        /\ \A j \in Pool : j # idx => particles'[j] = particles[j]
        /\ IF is_dead(particles[idx])
           THEN particles'[idx].age = 0 /\ ~is_dead(particles'[idx])
           ELSE particles'[idx] = particles[idx]

\* C20 as claimed -- In-place replacement in both sketches: in a tick the fresh
\* particle takes the pool index of the expired one and every other particle
\* keeps its index.
C20_InPlace ==
    [][ /\ InPlace17
        /\ run'.frame_count = run.frame_count + 1 =>
              \E moved \in Moves16(run) : \A k \in 1..Len(moved) :
                  IF ParticleIsDead(moved[k])
                  THEN run'.particles[k].life = run'.particles[k].max_life
                  ELSE run'.particles[k] = moved[k] ]_vars

\* C20 amended -- Replacement in the same tick: in the capstone the fresh
\* particle takes the index of the expired one and no other particle changes;
\* in lesson 16 the expired particles are removed, the survivors keep their
\* order and close up toward the front, and as many fresh particles as were
\* removed are appended at the end.  In both the pool keeps its size and after
\* the replacement pass no particle of the pool is expired.
C20_Replacement ==
    /\ [] /\ pc = "idle" => \A i \in Pool : ~is_dead(particles[i])
          /\ pc = "loop" => \A i \in Pool : i > idx => ~is_dead(particles[i])
          /\ \A k \in 1..Len(run.particles) : ~ParticleIsDead(run.particles[k])
          /\ run.pc = "idle" => Len(run.particles) = num_particles
    /\ [][ /\ InPlace17
           /\ run'.frame_count = run.frame_count + 1 =>
                 \E moved \in Moves16(run) :
                    LET alive == SelectSeq(moved, LAMBDA p : ~ParticleIsDead(p))
                    IN  /\ Len(run'.particles) = Len(run.particles)
                        /\ SubSeq(run'.particles, 1, Len(alive)) = alive
                        /\ \A k \in (Len(alive) + 1)..Len(run'.particles) :
                              run'.particles[k].life = run'.particles[k].max_life
         ]_vars

\* C20 witness (lesson 16): the particle born second under the current seed,
\* which lives longer than the one born first, now stands first in the pool,
\* part of its life spent, and a fresh particle stands at the end.
C20_Witness ==
    /\ run.pc = "idle" /\ Len(run.particles) = num_particles
    /\ LET born == Particles16(random_seed(run.seed_value), num_particles)
       IN  /\ born[1].max_life < born[2].max_life
           /\ << born[1].speed, born[1].color_idx >>
                 # << born[2].speed, born[2].color_idx >>
           /\ run.particles[1].max_life = born[2].max_life
           /\ run.particles[1].speed = born[2].speed
           /\ run.particles[1].color_idx = born[2].color_idx
           /\ run.particles[1].life < run.particles[1].max_life
           /\ run.particles[num_particles].life
                 = run.particles[num_particles].max_life


\* the arrows among the draw requests of the tick in progress
Arrows == SelectSeq(draws, LAMBDA d : d.kind = "arrow")

\* the cells draw_field() visits: even column and even row
OverlayCells ==
    { c \in (0..(cols - 1)) \X (0..(rows - 1)) : c[1] % 2 = 0 /\ c[2] % 2 = 0 }

\* C21 as claimed -- Field overlay covers every cell: with the overlay on, a
\* tick emits columns x rows arrows, one for every cell of the grid.
C21_EveryCell ==
    (pc \in { "loop", "expire" } /\ show_field) => Len(Arrows) = cols * rows

\* C21 amended -- Field overlay: with the overlay on, a tick emits, before any
\* particle request, exactly one arrow for every cell whose column and row
\* index are both even (ceil(columns / 2) x ceil(rows / 2) arrows, not one per
\* cell), each carrying the angle the grid update of this very tick wrote into
\* that cell; with the overlay off it emits no arrow.
C21_Overlay ==
    pc \in { "loop", "expire" } =>
        IF show_field
        THEN /\ Len(Arrows) = CeilDiv(cols, 2) * CeilDiv(rows, 2)
             /\ SubSeq(draws, 1, Len(Arrows)) = Arrows
             /\ \A c \in OverlayCells :
                   Cardinality({ k \in 1..Len(Arrows) :
                                   Arrows[k].i = c[1] /\ Arrows[k].j = c[2] }) = 1
             /\ \A k \in 1..Len(Arrows) :
                   /\ << Arrows[k].i, Arrows[k].j >> \in OverlayCells
                   /\ Arrows[k].angle
                         = UpdateField(table[artist], (frame_count - 1) * ZStep,
                                       noise_seed, cols, rows)[Arrows[k].i][Arrows[k].j]
        ELSE Arrows = << >>

\* C21 witness: in the second tick with the overlay on, under a profile other
\* than the initial one, fewer arrows than cells have been emitted, one of them
\* with an angle that the previous tick's field did not hold in that cell.
C21_Witness ==
    /\ pc = "loop" /\ idx >= 1 /\ frame_count >= 2 /\ show_field
    /\ current_artist # "monet"
    /\ Len(Arrows) >= 2 /\ Len(Arrows) < cols * rows
    /\ \E k \in 1..Len(Arrows) :
          Arrows[k].angle
              # UpdateField(table[artist], z_offset - ZStep, noise_seed,
                            cols, rows)[Arrows[k].i][Arrows[k].j]


\* the cells of the grid
Cells == (0..(cols - 1)) \X (0..(rows - 1))

\* C22 as claimed -- Grid update rule: after the update every cell (i, j) holds
\* sample(i * noise_scale, j * noise_scale, time_offset) * 2 pi *
\* angle_multiplier, noise_scale being the profile's flow_scale.
C22_ScaleFromProfile ==
    pc \in { "loop", "expire" } =>
        \A c \in Cells :
            field[c[1]][c[2]]
                = (Noise(noise_seed, c[1] * table[artist].flow_scale,
                         c[2] * table[artist].flow_scale, z_offset)
                      * TWO_PI * table[artist].flow_multiplier) \div NoiseRes

\* C22 amended -- Grid update rule: after the update of a tick the field has
\* exactly columns x rows cells and every cell (i, j) holds
\* sample(i * 10 * flow_scale, j * 10 * flow_scale, z_offset) * 2 pi *
\* flow_multiplier of the active profile (the sample coordinates are ten times
\* the profile's flow_scale per cell), sampled at the time offset of this tick,
\* so every cell is rewritten in every tick; every stored angle lies in
\* [0, 2 pi * flow_multiplier).
C22_GridUpdate ==
    pc \in { "loop", "expire" } =>
        /\ DOMAIN field = 0..(cols - 1)
        /\ \A i \in DOMAIN field : DOMAIN field[i] = 0..(rows - 1)
        /\ \A c \in Cells :
              /\ field[c[1]][c[2]]
                    = (Noise(noise_seed, c[1] * 10 * table[current_artist].flow_scale,
                             c[2] * 10 * table[current_artist].flow_scale,
                             (frame_count - 1) * ZStep)
                          * TWO_PI * table[current_artist].flow_multiplier) \div NoiseRes
              /\ 0 <= field[c[1]][c[2]]
              /\ field[c[1]][c[2]] < TWO_PI * table[current_artist].flow_multiplier

\* C22 witness: in the third tick, under the profile with multiplier 3, the
\* last column has been rewritten, a cell holds more than a full turn, and the
\* field is not the one the profile's bare flow_scale would give.
C22_Witness ==
    /\ pc = "loop" /\ idx >= 1 /\ frame_count = 3
    /\ current_artist = "vangogh"
    /\ \E j \in 0..(rows - 1) : field[cols - 1][j] # 0
    /\ \E c \in Cells : field[c[1]][c[2]] > TWO_PI
    /\ \E c \in Cells :
          field[c[1]][c[2]]
              # (Noise(noise_seed, c[1] * table[artist].flow_scale,
                       c[2] * table[artist].flow_scale, z_offset)
                    * TWO_PI * table[artist].flow_multiplier) \div NoiseRes


\* what a particle keeps from its creation
Attributes(p) == << p.col, p.stroke_weight, p.max_speed, p.lifespan >>

\* C23 -- Per-tick frame of a particle: the follow/update step of a tick
\* changes nothing of the pool but the visited particle, and of that particle
\* only position, previous position, velocity and age (age by exactly one);
\* its velocity after the step is (cos, sin) of the angle of the cell it stood
\* in, times its max_speed, whatever its velocity was; and in no step do the
\* colour, stroke weight, max_speed or lifespan at a pool index change unless
\* the particle there is a freshly constructed one (a replacement on expiry, a
\* pool reset or an artist switch).
C23_Frame ==
    [][ /\ (pc = "loop" /\ pc' = "expire") =>
              LET p == particles[idx]
                  q == particles'[idx]
              IN  /\ Len(particles') = Len(particles)
                  /\ \A j \in Pool : j # idx => particles'[j] = particles[j]
                  /\ Attributes(q) = Attributes(p)
                  /\ q.age = p.age + 1
                  /\ \E at \in Around(p) :
                        LET angle == field[CellIndex(at[1], scale, cols)]
                                          [CellIndex(at[2], scale, rows)]
                        IN  /\ q.vx = Cos(angle) * p.max_speed
                            /\ q.vy = Sin(angle) * p.max_speed
        /\ \A i \in (DOMAIN particles) \cap (DOMAIN particles') :
              Attributes(particles'[i]) # Attributes(particles[i]) =>
                  /\ particles'[i].age = 0
                  /\ particles'[i].vx = 0 /\ particles'[i].vy = 0
                  /\ \/ pc = "expire" /\ i = idx /\ is_dead(particles[i])
                     \/ pc = "idle" /\ pc' = "idle"
      ]_vars

\* C23 witness: a particle in at least its second tick has just been moved; it
\* has a velocity, has left its previous position, and the cell it now stands
\* in holds an angle that would give it another velocity.
C23_Witness ==
    /\ pc = "expire"
    /\ LET p == particles[idx]
       IN  /\ p.age >= 2
           /\ << p.x, p.y >> # << p.prev_x, p.prev_y >>
           /\ \A at \in Around(p) :
                 LET angle == field[CellIndex(at[1], scale, cols)]
                                   [CellIndex(at[2], scale, rows)]
                 IN  << p.vx, p.vy >> # << Cos(angle) * p.max_speed,
                                          Sin(angle) * p.max_speed >>


\* a particle as the constructor leaves it
Fresh(p) ==
    /\ p.age = 0
    /\ p.prev_x = p.x /\ p.prev_y = p.y
    /\ p.vx = 0 /\ p.vy = 0

\* C24 -- Full reset on profile change: a key step that switches the artist or
\* resets the pool (the only steps between ticks that draw random numbers)
\* leaves a pool of max_particles freshly constructed particles (age 0,
\* previous position equal to position, no velocity) whatever the pool held
\* before, and leaves z_offset, t, the grid dimensions, the field and the
\* trails and overlay flags as they were; a step that changes the active
\* profile is such a step.
C24_FullReset ==
    [][ /\ current_artist' # current_artist => (pc = "idle" /\ rng' # rng)
        /\ (pc = "idle" /\ pc' = "idle" /\ rng' # rng) =>
              /\ Len(particles') = pool_size
              /\ \A i \in 1..Len(particles') : Fresh(particles'[i])
              /\ UNCHANGED << z_offset, t, cols, rows, field, show_trails,
                              show_field, frame_count >>
      ]_vars

\* C24 witness: after two ticks, with trails switched off, the artist has just
\* been switched away from the profile the last tick ran under: the pool is
\* all fresh although the time offset has advanced.
C24_Witness ==
    /\ pc = "idle" /\ frame_count >= 2
    /\ artist # current_artist
    /\ ~show_trails
    /\ z_offset = frame_count * ZStep
    /\ Len(particles) = max_particles
    /\ \A i \in Pool : Fresh(particles[i])


\* the last n frame numbers written to frames/
LastSaved(g, n) == SubSeq(g.saved, Len(g.saved) - n + 1, Len(g.saved))

\* C25 -- Sequence export (lesson 16) is a bounded run: while an export runs
\* its counter is below sequence_frames and the frames saved so far are one
\* per draw() since the start, with consecutive frame numbers up to the
\* current one; every draw() during an export saves exactly one frame, a
\* draw() outside an export and every key saves none; the export ends in the
\* draw() that saves its sequence_frames-th frame, so that every finished
\* export has saved exactly sequence_frames frames; exporting_sequence turns
\* true only in a key step that restarts counter, time and pool, and 'v'
\* pressed while exporting changes none of the sketch's globals.
C25_BoundedExport ==
    /\ [] /\ run.exporting_sequence =>
                /\ run.frame_count_export < sequence_frames
                /\ Len(run.saved) >= run.frame_count_export
                /\ LastSaved(run, run.frame_count_export)
                      = [ k \in 1..run.frame_count_export |->
                            run.frame_count - run.frame_count_export + k ]
                /\ Shown(key_v(run)) = Shown([ run EXCEPT !.draws = << >> ])
                /\ key_v(run).saved = run.saved
          /\ ~run.exporting_sequence =>
                run.frame_count_export \in { 0, sequence_frames }
          /\ Len(run.saved) % sequence_frames
                = IF run.exporting_sequence THEN run.frame_count_export ELSE 0
    /\ [][ IF run'.frame_count = run.frame_count + 1
           THEN IF run.exporting_sequence
                THEN /\ run'.saved = Append(run.saved, run'.frame_count)
                     /\ run'.frame_count_export = run.frame_count_export + 1
                     /\ run'.exporting_sequence
                           = (run'.frame_count_export < sequence_frames)
                ELSE /\ run'.saved = run.saved
                     /\ ~run'.exporting_sequence
                     /\ run'.frame_count_export = run.frame_count_export
           ELSE /\ run'.saved = run.saved
                /\ run.exporting_sequence =>
                      /\ run'.exporting_sequence
                      /\ run'.frame_count_export = run.frame_count_export
                /\ (~run.exporting_sequence /\ run'.exporting_sequence) =>
                      /\ run'.frame_count_export = 0
                      /\ run'.t = 0
                      /\ run'.particles
                            = Particles16(random_seed(run.seed_value), num_particles)
                /\ ~run.exporting_sequence =>
                      run'.frame_count_export
                          \in { run.frame_count_export, 0 }
         ]_vars

\* C25 witness: an export that started after the first frame has finished: it
\* saved exactly sequence_frames consecutive frames, none of them frame 1, a
\* further draw() has saved nothing, and exporting_sequence is false.
C25_Witness ==
    /\ run.pc = "idle" /\ ~run.exporting_sequence
    /\ run.frame_count_export = sequence_frames
    /\ Len(run.saved) = sequence_frames
    /\ run.saved[1] > 1
    /\ \A k \in 1..(Len(run.saved) - 1) : run.saved[k + 1] = run.saved[k] + 1
    /\ run.frame_count > run.saved[Len(run.saved)]


\* the positions of the lesson 06 list
Pool06 == 1..Len(sketch06.particles)

\* is_dead() can hold of the particle p; it can fail of p (the two differ
\* only where a test of is_dead() is within rounding of its threshold)
CanBeDead06(p) == \E off \in BOOLEAN : IsDead06(p, off)
CanBeAlive06(p) == \E off \in BOOLEAN : ~IsDead06(p, off)

\* C26 -- Dead-particle removal (lesson 06): the pass of a draw() starts at
\* the last particle of the list as it stands after emission and goes down
\* one index per particle to the first; the particle at the index is updated
\* (lifespan less its decay, position moved by its velocity) and displayed
\* once, with its own position and colour, and no other particle changes; it
\* is then removed if is_dead() holds of it after the update and kept if not,
\* the particles before it keep their indices (they are still to be visited)
\* and the ones behind it, already visited, move up by one; the visited part
\* of the list never holds a dead particle, and between draw() calls the
\* list holds none.
C26_Removal ==
    /\ [] /\ sketch06.pc \in { "idle", "boot" } =>
                \A j \in Pool06 : CanBeAlive06(sketch06.particles[j])
          /\ sketch06.pc \in { "loop", "expire" } =>
                /\ 0 <= sketch06.idx /\ sketch06.idx <= Len(sketch06.particles)
                /\ \A j \in Pool06 :
                      j > sketch06.idx => CanBeAlive06(sketch06.particles[j])
          /\ sketch06.pc = "expire" => sketch06.idx >= 1
    /\ [][ LET g == sketch06
               h == sketch06'
               i == sketch06.idx
           IN  /\ (g.pc = "idle" /\ h.pc = "loop") =>
                     /\ h.idx = Len(h.particles)
                     /\ h.draws = << >>
                     /\ SubSeq(h.particles, 1, Len(g.particles)) = g.particles
               /\ (g.pc = "loop" /\ h.pc = "expire") =>
                     /\ h.idx = i
                     /\ Len(h.particles) = Len(g.particles)
                     /\ \A j \in Pool06 : j # i => h.particles[j] = g.particles[j]
                     /\ h.particles[i].lifespan
                           = g.particles[i].lifespan - g.particles[i].decay
                     /\ h.particles[i].x = g.particles[i].x + g.particles[i].vx
                     /\ h.particles[i].y
                           = g.particles[i].y + g.particles[i].vy + g.particles[i].gravity
                     /\ Len(h.draws) = Len(g.draws) + 1
                     /\ SubSeq(h.draws, 1, Len(g.draws)) = g.draws
                     /\ h.draws[Len(h.draws)].x = h.particles[i].x
                     /\ h.draws[Len(h.draws)].y = h.particles[i].y
                     /\ h.draws[Len(h.draws)].col = Rgb(h.particles[i].col)
               /\ (g.pc = "expire") =>
                     /\ h.pc = "loop" /\ h.idx = i - 1
                     /\ h.draws = g.draws
                     /\ \/ /\ CanBeDead06(g.particles[i])
                           /\ Len(h.particles) = Len(g.particles) - 1
                           /\ \A j \in 1..(i - 1) : h.particles[j] = g.particles[j]
                           /\ \A j \in (i + 1)..Len(g.particles) :
                                 h.particles[j - 1] = g.particles[j]
                        \/ /\ CanBeAlive06(g.particles[i])
                           /\ h.particles = g.particles
               /\ (g.pc = "loop" /\ h.pc = "idle") =>
                     /\ i = 0
                     /\ h.particles = g.particles
         ]_vars

\* C26 witness: in a pass of the rain, a drop that has reached the floor with
\* lifespan left has just been updated and displayed and awaits its removal;
\* drops before it are still to be visited, drops behind it have been visited
\* and stay, and an earlier removal of this pass has already shortened the
\* list.
C26_Witness ==
    /\ sketch06.pc = "expire" /\ sketch06.mode = 2
    /\ LET i == sketch06.idx
           ps == sketch06.particles
       IN  /\ 1 < i /\ i < Len(ps)
           /\ ps[i].lifespan > 0
           /\ ps[i].y > (Height06 - RainFloor) * PosRes06
           /\ ~CanBeAlive06(ps[i])
           /\ Len(sketch06.draws) > Len(ps) - i + 1


\* frames a particle of lifespan l lasts at most: ceil(l / smallest decay)
FramesToDie(l) == CeilDiv(l, DecayMin)

\* C28 -- Every emitted particle eventually dies (lesson 06): every particle
\* carries a decay of at least 2 (and below 5) and a lifespan of the initial
\* value less one decay per frame since its creation; no particle of the list
\* has received more updates than ceil(initial lifespan / 2) (128 for the
\* source's 255), one that has received that many is the one just updated and
\* is removed in this frame, and between frames every particle has lifespan
\* left (or a lifespan the code's floats cannot tell from 0); and once clicks
\* and keys have ceased in Explosion mode, where draw() emits nothing, the
\* list becomes empty.
C28_EventuallyDies ==
    /\ [] \A j \in Pool06 :
            LET p == sketch06.particles[j]
            IN  /\ DecayMin * Res06 <= p.decay /\ p.decay < DecayMax * Res06
                /\ (lifespan06 * Res06 - p.lifespan) % p.decay = 0
                /\ Updates06(p) <= sketch06.frame_count
                /\ Updates06(p) <= FramesToDie(lifespan06)
                /\ Updates06(p) = FramesToDie(lifespan06) =>
                      /\ sketch06.pc = "expire" /\ j = sketch06.idx
                      /\ p.lifespan <= 0
                /\ sketch06.pc = "idle" =>
                      \/ p.lifespan > 0
                      \/ p.lifespan = 0 /\ ~Exact06(p.decay)
    /\ (sketch06.mode = 1 /\ sketch06.frame_count >= InputFrames06)
          ~> (sketch06.particles = << >>)

\* C28 witness: the last particle of an explosion, one with the smallest
\* decay, has just received its ceil(lifespan / 2)-th update, which uses up
\* its lifespan; it is still above the bottom margin and awaits its removal,
\* after which the list is empty.
C28_Witness ==
    /\ sketch06.pc = "expire" /\ sketch06.mode = 1
    /\ Len(sketch06.particles) = 1
    /\ LET p == sketch06.particles[1]
       IN  /\ Updates06(p) = FramesToDie(lifespan06)
           /\ p.lifespan <= 0
           /\ p.lifespan + p.decay > 0
           /\ p.y + PosErr06(p) < (Height06 + BottomMargin) * PosRes06


\* C29 -- Mode consistency (lesson 06): at every state every particle of the
\* list was created for the selected mode, and a step that changes the mode
\* leaves the list empty.
C29_ModeConsistency ==
    /\ [](\A j \in Pool06 : sketch06.particles[j].mode = sketch06.mode)
    /\ [][sketch06.mode' # sketch06.mode => sketch06.particles' = << >>]_vars

\* C29 witness: after a switch away from the Fountain, the list is filled with
\* two explosions and a frame is being drawn.
C29_Witness ==
    /\ sketch06.mode = 1 /\ sketch06.pc = "loop"
    /\ Len(sketch06.particles) = 2 * Burst06
    /\ \A j \in Pool06 : sketch06.particles[j].mode = 1

\* C30 -- Fireflies cap (lesson 06): while the mode is Fireflies the list never
\* holds more than the cap (50) of particles, and no step taken in Fireflies
\* mode adds more than one particle.
C30_FirefliesCap ==
    /\ [](sketch06.mode = 3 => Len(sketch06.particles) <= FireflyCap)
    /\ [][sketch06.mode' = 3 =>
             Len(sketch06.particles') <= Len(sketch06.particles) + 1]_vars

\* C30 witness: a frame in Fireflies mode has begun with the list at the cap
\* and the generator in a state whose draw would have passed the 0.1 test: no
\* firefly was added (every particle has been updated before) and no random
\* number was drawn.
C30_Witness ==
    /\ sketch06.mode = 3 /\ sketch06.pc = "loop"
    /\ Len(sketch06.particles) = FireflyCap
    /\ sketch06.idx = FireflyCap
    /\ FireflyChance(sketch06.rng)
    /\ \A j \in Pool06 : sketch06.particles[j].lifespan < lifespan06 * Res06


\* the indices of the day 5 particle list
Pool05 == 1..Len(day5.particles)

\* the m newest particles of a list (its back)
Newest(ps, m) == SubSeq(ps, Len(ps) - m + 1, Len(ps))

\* C27 -- Installation particle cap (day 5): except between the spawning of a
\* frame and the limit of update_particles(), so after every draw(), the list
\* holds at most the cap (500) of particles; the list runs from the oldest
\* particle (least life) to the newest, and the limit keeps the newest
\* particles, in order, and drops the front of the list; the particle just
\* updated is removed exactly when its life is <= 0, the others staying in
\* place, so that between two draw() calls every particle has life left.
C27_ParticleCap ==
    /\ [] /\ day5.pc # "spawned" => Len(day5.particles) <= ParticleCap
          /\ day5.pc = "idle" => \A j \in Pool05 : day5.particles[j].life > 0
          /\ day5.pc \in { "idle", "spawned" } =>
                \A j, k \in Pool05 :
                    j < k => day5.particles[j].life <= day5.particles[k].life
    /\ [][ /\ day5.pc = "spawned" =>
               /\ Len(day5.particles') = IF Len(day5.particles) > ParticleCap
                                         THEN ParticleCap
                                         ELSE Len(day5.particles)
               /\ day5.particles' = Newest(day5.particles, Len(day5.particles'))
           /\ day5.pc = "expire" =>
               day5.particles' =
                   IF day5.particles[day5.idx].life <= 0
                   THEN [ j \in 1..(Len(day5.particles) - 1) |->
                            IF j < day5.idx THEN day5.particles[j]
                                            ELSE day5.particles[j + 1] ]
                   ELSE day5.particles ]_vars

\* C27 witness: with an attractor placed, a frame has spawned on top of
\* particles of earlier frames and the list is over the cap by more than one;
\* the limit is about to run.
C27_Witness ==
    /\ day5.pc = "spawned"
    /\ day5.attractors # << >>
    /\ Len(day5.particles) > ParticleCap + 1
    /\ day5.particles[1].life < life05
    /\ day5.particles[Len(day5.particles)].life = life05

====
